---- MODULE Spec2Model ----
(***************************************************************************)
(* Detection-response orchestration of the whids agent: the action         *)
(* orchestrator of hids/actions.go (Queue, Run, HandleActions) and the     *)
(* post-detection hooks of hids/hookdefs.go (hookHandleActions, the dump   *)
(* routines, hookTerminator, hookProcTerm), over the shared process        *)
(* tracker and the dedup sets memdumped / dumping / filedumped.            *)
(***************************************************************************)
EXTENDS Naturals, Sequences, FiniteSets, TLC

(* ------------------------------ bounds -------------------------------- *)

\* file events counted per process by hookStats
MaxFiles == 2

\* paths waiting in the compression queue
MaxCompress == 2

\* detections queued in a run that is shut down
MaxLate == 2

\* detections handed to ActionHandler.Queue over one run
MaxQueued == 2
\* detections handed to hookHandleActions over one run; a run delivers its
\* detections either to Queue or to hookHandleActions, the two generations
\* of the response path
MaxHooked == 1
\* largest configured Dump.MaxDumps explored (the shipped default is 4)
MaxDumpsCfg == 2
\* iterations of the kill waiter's poll loop (60 in hookdefs.go:394)
PollLimit == 2
\* detections handed to ActionHandler.Queue in a burst, one more than the
\* worker slots
MaxBurst == 3

(* ------------------------- program constants -------------------------- *)

\* semaphore.New(2): the action handler's worker budget
SemJobs == 2
\* capacity of h.hookSemaphore, the hook dump routines' worker budget
HookSemJobs == 2

nullGUID == "{00000000-0000-0000-0000-000000000000}"
ActionKill == "kill"
ActionBlacklist == "blacklist"
ActionMemdump == "memdump"
ActionFiledump == "filedump"
ActionRegdump == "regdump"
ActionReport == "report"
ActionBrief == "brief"

\* os.Getpid(): the agent's own process id
SelfPid == "pidSelf"
\* h.guid before hookSelfGUID has identified the agent
NoGuid == ""

(* --------------------------- the environment -------------------------- *)

Range(s) == {s[i] : i \in DOMAIN s}

\* process GUIDs seen in events: g1 is an ordinary tracked process, gS the
\* agent's own process, gU a process the tracker never saw
Guids == {"g1", "gS", "gU"}

\* the tracker's content when detections start to arrive
ZeroTrack ==
  [PID |-> "none", CommandLine |-> "", Image |-> "", DumpCount |-> 0,
   Ancestors |-> <<>>, AncArr |-> "", AncCap |-> 0,
   ParentProcessGUID |-> "", ParentImage |-> "",
   ParentCommandLine |-> "", CurrentDirectory |-> "", User |-> "",
   IntegrityLevel |-> "", hashes |-> "", Services |-> "",
   ParentUser |-> "", ParentIntegrityLevel |-> "", ParentServices |-> "",
   ParentCurrentDirectory |-> "",
   Signed |-> FALSE, Signature |-> "", SignatureStatus |-> "", Score |-> 0,
   CountFilesCreated |-> 0, CountFilesDeleted |-> 0,
   CountFilesCreatedByExt |-> [x \in {".txt", ""} |-> 0],
   CountFilesDeletedByExt |-> [x \in {".txt", ""} |-> 0],
   FirstFileCreated |-> FALSE, FirstFileDeleted |-> FALSE]
InitTracks ==
  [g \in Guids |->
     CASE g = "g1" -> [ZeroTrack EXCEPT
                        !.PID = "p1", !.CommandLine = "c1", !.Image = "f1",
                        !.Ancestors = <<"fU">>, !.AncArr = "g1", !.AncCap = 1,
                        !.ParentProcessGUID = "gU",
                        !.ParentImage = "fU", !.ParentCommandLine = "cU",
                        !.CurrentDirectory = "d1", !.User = "u1",
                        !.IntegrityLevel = "High", !.hashes = "hA",
                        !.Services = "svc1"]
       [] g = "gS" -> [ZeroTrack EXCEPT
                        !.PID = SelfPid, !.CommandLine = "cS", !.Image = "fS",
                        !.Ancestors = <<"fU">>, !.AncArr = "gS", !.AncCap = 1,
                        !.ParentProcessGUID = "gU",
                        !.ParentImage = "fU", !.ParentCommandLine = "cU",
                        !.CurrentDirectory = "dS", !.User = "uS",
                        !.IntegrityLevel = "System", !.hashes = "hS"]
       [] OTHER -> ZeroTrack]

\* the file system: f1 and f2 are regular files with the same content, fS is
\* the agent's binary
RegularFiles == {"f1", "f2", "fS", "dp2/rel"}

\* paths of named pipes, which may pass for a file
PipePaths == {"pipe"}
Sha256(f) == IF f \in {"f1", "f2"} THEN "hA" ELSE "hS"

\* detections: the source process GUID, the action list the detection engine
\* attached, the event's TargetFilename (or "none") and, for a
\* registry-value-set event, its Details
Det(g, a, t, d) == [guid |-> g, actions |-> a, target |-> t, details |-> d]

Detections ==
  { Det("g1", <<ActionBlacklist, ActionMemdump, ActionKill>>, "none", "none"),
    Det("g1", <<ActionKill>>, "none", "none"),
    Det("g1", <<ActionFiledump, ActionReport>>, "f2", "none"),
    Det("g1", <<ActionRegdump>>, "none", "Binary Data"),
    Det("gS", <<ActionBlacklist, ActionMemdump, ActionKill>>, "none", "none"),
    Det("gU", <<ActionBlacklist, ActionMemdump, ActionKill>>, "none", "none") }

\* the hook path reads the action list in order: the same detections, the
\* kill-first order of the first, and a registry event whose Details is not
\* "Binary Data"
HookDetections ==
  Detections \cup { Det("g1", <<ActionKill, ActionMemdump>>, "none", "none"),
                    Det("g1", <<ActionRegdump>>, "none", "DWORD") }

\* process-creation events seen by hookTerminator: ProcessId and CommandLine
Creations == [pid : {SelfPid, "p2"}, cmd : {"c1", "c2"}]

\* configurations: Dump.MaxDumps, Dump.DumpUntracked with
\* Report.EnableReporting both off (as shipped) or both on, and
\* Dump.Compression
AllConfigs ==
  { [MaxDumps |-> m, DumpUntracked |-> b, EnableReporting |-> b,
     Compression |-> c] :
      m \in 1..MaxDumpsCfg, b \in BOOLEAN, c \in BOOLEAN }

\* the configurations with Dump.Compression on
Configs == { c \in AllConfigs : c.Compression }

VARIABLES
  config,      \* h.config
  flagProcTermEn, \* h.flagProcTermEn: a process-termination event was seen
  bootCompleted,  \* h.bootCompleted: LogonUI.exe's creation was seen
  created,     \* the creation events hookTrack processed, with their outcome
  evt,         \* the event the enrichment hooks handled last, as they left it
  rulesDir,    \* the files of m.Config.RulesDir: name -> the rules written in it
  adm,         \* the rule-file rewrite in progress in the manager's admin API
  compressionQueue, \* ActionHandler.compressionQueue
  comp,        \* the goroutine of compressionRoutine: its position and path
  ctxErr,      \* m.ctx.Err() != nil: the shutdown signal has been raised
  guid,        \* h.guid, the agent's own process GUID once identified
  tracks,      \* h.tracker / h.processTracker: GUID -> track (ZeroTrack: none)
  blacklist,   \* the tracker's command-line blacklist
  memdumped,   \* h.memdumped
  dumping,     \* h.dumping
  filedumped,  \* h.filedumped
  running,     \* PIDs of the processes the OS has running
  events,      \* the detections delivered so far, in order, with their path
  queue,       \* ActionHandler.queue
  disp,        \* the dispatcher goroutine of Run: its position and popped event
  semJobs,     \* slots of ActionHandler.semJobs held
  hookSem,     \* slots of h.hookSemaphore held
  hook,        \* the event-processing thread inside hookHandleActions
  jobs,        \* the goroutines started so far
  calls,       \* OS and tracker calls made: <<operation, target, by>>, by the
               \* detection of that index in events, or 0 for hookTerminator
  everDumped   \* GUIDs that were ever added to memdumped

vars == <<config, compressionQueue, comp, rulesDir, adm, evt, flagProcTermEn, bootCompleted, created, ctxErr, guid, tracks, blacklist, memdumped, dumping, filedumped,
          running, events, queue, disp, semJobs, hookSem, hook, jobs, calls,
          everDumped>>

(* ------------------------------ helpers ------------------------------- *)

srcGUIDFromEvent(e) == e.guid

GetByGuid(g) == IF g \in DOMAIN tracks THEN tracks[g] ELSE ZeroTrack

processTrackFromEvent(e) == GetByGuid(srcGUIDFromEvent(e))

IsZero(pt) == pt = ZeroTrack

IsHIDSEvent(e) == guid # NoGuid /\ srcGUIDFromEvent(e) = guid

IsPIDRunning(pid) == pid \in running

NotAgentUnchecked(pid) == TRUE

\* the additional check not to suspend, kill, dump or blacklist the agent
NotAgent(pid) == pid # SelfPid

IsFile(f) == f \in RegularFiles \cup PipePaths

\* utils.IsPipePath
IsPipePathNever(f) == FALSE
IsPipePath(f) == f \in PipePaths

\* CheckDumpCountOrInc: the verdict, and the tracker after the call
CheckDumpCount(g) ==
  IF IsZero(GetByGuid(g))
    THEN config.DumpUntracked
    ELSE GetByGuid(g).DumpCount < config.MaxDumps

\* a check that answers without counting
TracksAfterCheckNotCounted(g) == tracks

TracksAfterCheck(g) ==
  IF ~IsZero(GetByGuid(g)) /\ GetByGuid(g).DumpCount < config.MaxDumps
    THEN [tracks EXCEPT ![g].DumpCount = @ + 1]
    ELSE tracks

\* the detection a goroutine works on
Ev(j) == events[jobs[j].k].det

\* budget checks passed so far for the GUID
Accepted(g) ==
  Cardinality({i \in DOMAIN jobs :
                 jobs[i].ok = "yes" /\ srcGUIDFromEvent(events[jobs[i].k].det) = g})

NewJob(kind, k, pc) ==
  [kind |-> kind, k |-> k, pc |-> pc, ok |-> "?", prior |-> 0, had |-> FALSE,
   i |-> 0, todo |-> {}, cur |-> "none", wrote |-> {}, err |-> "none",
   query |-> "none", ferr |-> "none", dir |-> FALSE]

\* the OS integration layer, as calls recorded with their target and the
\* detection (or routine) that made them
SuspendProcess(pid, by) == calls \cup {<<"suspend", pid, by>>}
terminateUnchecked(pid, by) == calls \cup {<<"terminate", pid, by>>}

\* terminate(pid) of the terminator routine never targets the agent's own PID
terminate(pid, by) ==
  IF pid # SelfPid THEN calls \cup {<<"terminate", pid, by>>} ELSE calls
\* ProcessTrack.TerminateProcess: the OS terminates the track's PID
TerminateProcess(pid, by) == calls \cup {<<"terminate", pid, by>>}
\* the OS has the terminated process gone
RunningAfterTerminate(pid) == running \ {pid}
FullMemoryMiniDump(pid, by) == calls \cup {<<"snapshot", pid, by>>}

\* the test on the Details field of a registry-value-set event
IsBinaryDataAnyKind(details) == details # "none"
IsBinaryData(details) == details = "Binary Data"

\* utils.RegQuery: the outcome of the live query
RegQuery(err) == IF err THEN "failed" ELSE "ok"

\* the content written to reg.txt: the value, or the error string
RegContent(err) == IF err THEN "error dumping" ELSE "value"

(* ------------- hids/actions.go: compress, compressionRoutine ---------- *)

\* Dump.Compression
Compression == config.Compression

\* compress: the queue after the call
compress(path) ==
  IF Compression THEN Append(compressionQueue, path) ELSE compressionQueue

(* ----------------------- hids/actions.go: Queue, Run ------------------ *)

\* Queue, over a run of at most max detections: the event is pushed when it
\* is not the agent's own and its detection has actions; pushed and late
\* record that it was, and that the shutdown signal had been raised
QueueUpTo(d, max) ==
  /\ Len(events) < max
  /\ \A k \in DOMAIN events : events[k].via = "queue"
  /\ LET push == ~IsHIDSEvent(d) /\ Len(d.actions) > 0 IN
       /\ events' = Append(events, [det |-> d, via |-> "queue",
                                     pushed |-> push, late |-> ctxErr])
       /\ queue' = IF push THEN Append(queue, Len(events) + 1) ELSE queue
  /\ UNCHANGED <<config, compressionQueue, comp, rulesDir, adm, evt, flagProcTermEn, bootCompleted, created, ctxErr, guid, tracks, blacklist, memdumped, dumping, filedumped,
                 running, disp, semJobs, hookSem, hook, jobs, calls, everDumped>>

Queue(d) == QueueUpTo(d, MaxQueued)

RunPopLast ==
  /\ disp.pc = "loop"
  /\ queue # <<>>
  /\ disp' = [pc |-> "acquire", evt |-> queue[Len(queue)]]
  /\ queue' = SubSeq(queue, 1, Len(queue) - 1)
  /\ UNCHANGED <<config, compressionQueue, comp, rulesDir, adm, evt, flagProcTermEn, bootCompleted, created, ctxErr, guid, tracks, blacklist, memdumped, dumping, filedumped,
                 running, events, semJobs, hookSem, hook, jobs, calls, everDumped>>

\* Run: the dispatcher pops the next queued event; the inner loop reads
\* queue.Len() alone
RunPop ==
  /\ disp.pc = "loop"
  /\ queue # <<>>
  /\ disp' = [pc |-> "acquire", evt |-> Head(queue)]
  /\ queue' = Tail(queue)
  /\ UNCHANGED <<config, compressionQueue, comp, rulesDir, adm, evt, flagProcTermEn, bootCompleted, created, ctxErr, guid, tracks, blacklist, memdumped, dumping, filedumped,
                 running, events, semJobs, hookSem, hook, jobs, calls, everDumped>>

RunAcquireUnbounded ==
  /\ disp.pc = "acquire"
  /\ semJobs' = semJobs + 1
  /\ jobs' = Append(jobs, NewJob("actions", disp.evt, "start"))
  /\ disp' = [pc |-> "loop", evt |-> 0]
  /\ UNCHANGED <<config, compressionQueue, comp, rulesDir, adm, evt, flagProcTermEn, bootCompleted, created, ctxErr, guid, tracks, blacklist, memdumped, dumping, filedumped,
                 running, events, queue, hookSem, hook, calls, everDumped>>

\* Run: the dispatcher acquires a slot and starts the worker
RunAcquire ==
  /\ disp.pc = "acquire"
  /\ semJobs < SemJobs
  /\ semJobs' = semJobs + 1
  /\ jobs' = Append(jobs, NewJob("actions", disp.evt, "start"))
  /\ disp' = [pc |-> "loop", evt |-> 0]
  /\ UNCHANGED <<config, compressionQueue, comp, rulesDir, adm, evt, flagProcTermEn, bootCompleted, created, ctxErr, guid, tracks, blacklist, memdumped, dumping, filedumped,
                 running, events, queue, hookSem, hook, calls, everDumped>>

\* Run: with the queue empty the dispatcher sleeps, reads ctx.Err() and
\* leaves the loop once the shutdown signal has been raised
RunStop ==
  /\ disp.pc = "loop"
  /\ queue = <<>>
  /\ ctxErr
  /\ disp' = [pc |-> "stopped", evt |-> 0]
  /\ UNCHANGED <<config, compressionQueue, comp, rulesDir, adm, evt, flagProcTermEn, bootCompleted, created, ctxErr, guid, tracks, blacklist, memdumped, dumping, filedumped,
                 running, events, queue, semJobs, hookSem, hook, jobs, calls, everDumped>>

\* the shutdown signal: the context is cancelled
Cancel ==
  /\ ~ctxErr
  /\ ctxErr' = TRUE
  /\ UNCHANGED <<config, compressionQueue, comp, rulesDir, adm, evt, flagProcTermEn, bootCompleted, created, guid, tracks, blacklist, memdumped, dumping, filedumped,
                 running, events, queue, disp, semJobs, hookSem, hook, jobs, calls, everDumped>>

\* a dump routine hands a file it has written to compress
Compress(path) ==
  /\ Len(compressionQueue) < MaxCompress
  /\ compressionQueue' = compress(path)
  /\ UNCHANGED <<config, comp, rulesDir, adm, evt, flagProcTermEn,
                 bootCompleted, created, ctxErr, guid, tracks, blacklist,
                 memdumped, dumping, filedumped, running, events, queue, disp,
                 semJobs, hookSem, hook, jobs, calls, everDumped>>

\* compressionRoutine: the outer loop reads ctx.Err() and goes on
compressionLoop ==
  /\ comp.pc = "outer"
  /\ ~ctxErr
  /\ comp' = [comp EXCEPT !.pc = "inner"]
  /\ UNCHANGED <<config, compressionQueue, rulesDir, adm, evt, flagProcTermEn,
                 bootCompleted, created, ctxErr, guid, tracks, blacklist,
                 memdumped, dumping, filedumped, running, events, queue, disp,
                 semJobs, hookSem, hook, jobs, calls, everDumped>>

\* compressionRoutine: the outer loop reads ctx.Err() after the shutdown
\* signal and the routine returns, whatever the queue holds
compressionStop ==
  /\ comp.pc = "outer"
  /\ ctxErr
  /\ comp' = [comp EXCEPT !.pc = "stopped"]
  /\ UNCHANGED <<config, compressionQueue, rulesDir, adm, evt, flagProcTermEn,
                 bootCompleted, created, ctxErr, guid, tracks, blacklist,
                 memdumped, dumping, filedumped, running, events, queue, disp,
                 semJobs, hookSem, hook, jobs, calls, everDumped>>

\* the routine pops the path pushed last
compressionPopLast ==
  /\ comp.pc = "inner"
  /\ compressionQueue # <<>>
  /\ comp' = [comp EXCEPT !.pc = "gzip",
                          !.path = compressionQueue[Len(compressionQueue)]]
  /\ compressionQueue' = SubSeq(compressionQueue, 1, Len(compressionQueue) - 1)
  /\ UNCHANGED <<config, rulesDir, adm, evt, flagProcTermEn, bootCompleted,
                 created, ctxErr, guid, tracks, blacklist, memdumped, dumping,
                 filedumped, running, events, queue, disp, semJobs, hookSem,
                 hook, jobs, calls, everDumped>>

\* compressionRoutine: the routine pops the next path; the inner loop reads
\* compressionQueue.Len() alone
compressionPop ==
  /\ comp.pc = "inner"
  /\ compressionQueue # <<>>
  /\ comp' = [comp EXCEPT !.pc = "gzip", !.path = Head(compressionQueue)]
  /\ compressionQueue' = Tail(compressionQueue)
  /\ UNCHANGED <<config, rulesDir, adm, evt, flagProcTermEn, bootCompleted,
                 created, ctxErr, guid, tracks, blacklist, memdumped, dumping,
                 filedumped, running, events, queue, disp, semJobs, hookSem,
                 hook, jobs, calls, everDumped>>

\* compressionRoutine: GzipFileBestSpeed returns, with or without an error
\* (which is logged), and the inner loop reads the queue again
compressionGzip ==
  /\ comp.pc = "gzip"
  /\ \E err \in BOOLEAN :
       comp' = [comp EXCEPT !.pc = "inner", !.path = <<>>, !.err = err]
  /\ UNCHANGED <<config, compressionQueue, rulesDir, adm, evt, flagProcTermEn,
                 bootCompleted, created, ctxErr, guid, tracks, blacklist,
                 memdumped, dumping, filedumped, running, events, queue, disp,
                 semJobs, hookSem, hook, jobs, calls, everDumped>>

\* compressionRoutine: the inner loop finds the queue empty, the routine
\* sleeps a second and goes back to the test of the outer loop
compressionSleep ==
  /\ comp.pc = "inner"
  /\ compressionQueue = <<>>
  /\ comp' = [comp EXCEPT !.pc = "outer"]
  /\ UNCHANGED <<config, compressionQueue, rulesDir, adm, evt, flagProcTermEn,
                 bootCompleted, created, ctxErr, guid, tracks, blacklist,
                 memdumped, dumping, filedumped, running, events, queue, disp,
                 semJobs, hookSem, hook, jobs, calls, everDumped>>

(* --------------------- hids/actions.go: HandleActions ----------------- *)

StagesKillFirst ==
  <<"blacklist", "suspend", "kill", "memdump", "report", "filedump", "regdump", "event">>

\* the steps of HandleActions in program order, and whether the detection
\* asks for each
Stages == <<"blacklist", "suspend", "memdump", "kill", "report", "filedump", "regdump", "event">>

\* every step taken whatever the detection asks for
WantedAlways(n, e) == TRUE

Wanted(n, e) ==
  LET A == Range(e.actions) IN
  CASE Stages[n] = "blacklist" -> ActionBlacklist \in A
    [] Stages[n] = "suspend" -> ActionKill \in A
    [] Stages[n] = "memdump" -> ActionMemdump \in A
    [] Stages[n] = "kill" -> ActionKill \in A
    [] Stages[n] = "report" -> (ActionReport \in A \/ ActionBrief \in A) /\ config.EnableReporting
    [] Stages[n] = "filedump" -> ActionFiledump \in A
    [] Stages[n] = "regdump" -> ActionRegdump \in A
    [] OTHER -> TRUE

\* the first step at or after position n that the detection asks for
StageFrom(n, e) ==
  Stages[CHOOSE i \in n..Len(Stages) :
           /\ Wanted(i, e)
           /\ \A m \in n..(i - 1) : ~Wanted(m, e)]

StageAfter(name, e) ==
  StageFrom((CHOOSE i \in DOMAIN Stages : Stages[i] = name) + 1, e)

IsWorker(j, pc) == jobs[j].kind = "actions" /\ jobs[j].pc = pc

ProceedsUnchecked(ok, e) == ~IsHIDSEvent(e)

\* the test of line 328 once shouldDump has answered ok
Proceeds(ok, e) == ok /\ ~IsHIDSEvent(e)

\* shouldDump(e) && !IsHIDSEvent(e) && det != nil
shouldDump(j) ==
  /\ IsWorker(j, "start")
  /\ LET e == Ev(j)
         ok == CheckDumpCount(srcGUIDFromEvent(e))
     IN /\ tracks' = TracksAfterCheck(srcGUIDFromEvent(e))
        /\ IF Proceeds(ok, e)
             THEN /\ jobs' = [jobs EXCEPT ![j].ok = IF ok THEN "yes" ELSE "no",
                                          ![j].prior = Accepted(srcGUIDFromEvent(e)),
                                          ![j].had = ~IsZero(processTrackFromEvent(e)),
                                          ![j].pc = StageFrom(1, e)]
                  /\ UNCHANGED semJobs
             ELSE /\ jobs' = [jobs EXCEPT ![j].ok = IF ok THEN "yes" ELSE "no",
                                          ![j].prior = Accepted(srcGUIDFromEvent(e)),
                                          ![j].had = ~IsZero(processTrackFromEvent(e)),
                                          ![j].pc = "done"]
                  /\ semJobs' = semJobs - 1
  /\ UNCHANGED <<config, compressionQueue, comp, rulesDir, adm, evt, flagProcTermEn, bootCompleted, created, ctxErr, guid, blacklist, memdumped, dumping, filedumped,
                 running, events, queue, disp, hookSem, hook, calls, everDumped>>

\* handling blacklisting action
HandleBlacklist(j) ==
  /\ IsWorker(j, "blacklist")
  /\ LET e == Ev(j)
         pt == processTrackFromEvent(e)
     IN /\ IF ~IsZero(pt) /\ NotAgent(pt.PID)
             THEN /\ blacklist' = blacklist \cup {pt.CommandLine}
                  /\ calls' = calls \cup {<<"blacklist", pt.CommandLine, jobs[j].k>>}
             ELSE UNCHANGED <<blacklist, calls>>
        /\ jobs' = [jobs EXCEPT ![j].pc = StageAfter("blacklist", e)]
  /\ UNCHANGED <<config, compressionQueue, comp, rulesDir, adm, evt, flagProcTermEn, bootCompleted, created, ctxErr, guid, tracks, memdumped, dumping, filedumped,
                 running, events, queue, disp, semJobs, hookSem, hook, everDumped>>

suspend_process(j) ==
  /\ IsWorker(j, "suspend")
  /\ LET e == Ev(j)
         pt == processTrackFromEvent(e)
     IN /\ calls' = IF ~IsZero(pt) /\ NotAgent(pt.PID)
                      THEN SuspendProcess(pt.PID, jobs[j].k)
                      ELSE calls
        /\ jobs' = [jobs EXCEPT ![j].pc = StageAfter("suspend", e)]
  /\ UNCHANGED <<config, compressionQueue, comp, rulesDir, adm, evt, flagProcTermEn, bootCompleted, created, ctxErr, guid, tracks, blacklist, memdumped, dumping, filedumped,
                 running, events, queue, disp, semJobs, hookSem, hook, everDumped>>

\* memdump: the track lookup and the test of line 239
memdump(j) ==
  /\ IsWorker(j, "memdump")
  /\ LET e == Ev(j)
         pt == processTrackFromEvent(e)
         g == srcGUIDFromEvent(e)
     IN IF IsZero(pt)
          THEN jobs' = [jobs EXCEPT ![j].pc = StageAfter("memdump", e),
                                    ![j].err = "cannot dump untracked process"]
          ELSE IF /\ IsPIDRunning(pt.PID)
                  /\ NotAgent(pt.PID)
                  /\ g \notin memdumped
                  /\ <<"guid", g>> \notin dumping
                 THEN jobs' = [jobs EXCEPT ![j].pc = "memdump_add"]
                 ELSE jobs' = [jobs EXCEPT ![j].pc = StageAfter("memdump", e),
                                           ![j].err = "cannot dump process"]
  /\ UNCHANGED <<config, compressionQueue, comp, rulesDir, adm, evt, flagProcTermEn, bootCompleted, created, ctxErr, guid, tracks, blacklist, memdumped, dumping, filedumped,
                 running, events, queue, disp, semJobs, hookSem, hook, calls, everDumped>>

\* memdump: dumping.Add(guid), then the snapshot call starts
memdumpAdd(j) ==
  /\ IsWorker(j, "memdump_add")
  /\ dumping' = dumping \cup {<<"guid", srcGUIDFromEvent(Ev(j))>>}
  /\ calls' = FullMemoryMiniDump(GetByGuid(srcGUIDFromEvent(Ev(j))).PID, jobs[j].k)
  /\ jobs' = [jobs EXCEPT ![j].pc = "memdump_snapshot"]
  /\ UNCHANGED <<config, compressionQueue, comp, rulesDir, adm, evt, flagProcTermEn, bootCompleted, created, ctxErr, guid, tracks, blacklist, memdumped, filedumped,
                 running, events, queue, disp, semJobs, hookSem, hook, everDumped>>

\* memdump: the snapshot call returns
memdumpSnapshotMarksAlways(j) ==
  /\ IsWorker(j, "memdump_snapshot")
  /\ \E err \in BOOLEAN :
       /\ memdumped' = memdumped \cup {srcGUIDFromEvent(Ev(j))}
       /\ everDumped' = everDumped \cup {srcGUIDFromEvent(Ev(j))}
       /\ compressionQueue' = compress(<<"dmp", srcGUIDFromEvent(Ev(j))>>)
       /\ jobs' = [jobs EXCEPT ![j].pc = "memdump_defer",
                               ![j].err = IF err THEN "failed to dump process" ELSE @,
                               ![j].wrote = @ \cup {<<"dmp", srcGUIDFromEvent(Ev(j))>>}]
  /\ UNCHANGED <<config, comp, rulesDir, adm, evt, flagProcTermEn, bootCompleted,
                 created, ctxErr, guid, tracks, blacklist, dumping, filedumped,
                 running, events, queue, disp, semJobs, hookSem, hook, calls>>

\* memdump: the snapshot call returns, with or without an error
memdumpSnapshot(j) ==
  /\ IsWorker(j, "memdump_snapshot")
  /\ \E err \in BOOLEAN :
       IF err
         THEN /\ jobs' = [jobs EXCEPT ![j].pc = "memdump_defer",
                                      ![j].err = "failed to dump process"]
              /\ UNCHANGED <<memdumped, everDumped, compressionQueue>>
         ELSE /\ memdumped' = memdumped \cup {srcGUIDFromEvent(Ev(j))}
              /\ everDumped' = everDumped \cup {srcGUIDFromEvent(Ev(j))}
              /\ compressionQueue' = compress(<<"dmp", srcGUIDFromEvent(Ev(j))>>)
              /\ jobs' = [jobs EXCEPT ![j].pc = "memdump_defer",
                                      ![j].wrote = @ \cup {<<"dmp", srcGUIDFromEvent(Ev(j))>>}]
  /\ UNCHANGED <<config, comp, rulesDir, adm, evt, flagProcTermEn, bootCompleted, created, ctxErr, guid, tracks, blacklist, dumping, filedumped,
                 running, events, queue, disp, semJobs, hookSem, hook, calls>>

memdumpDeferDelsDumped(j) ==
  /\ IsWorker(j, "memdump_defer")
  /\ dumping' = dumping \ {<<"guid", srcGUIDFromEvent(Ev(j))>>}
  /\ memdumped' = memdumped \ {srcGUIDFromEvent(Ev(j))}
  /\ jobs' = [jobs EXCEPT ![j].pc = StageAfter("memdump", Ev(j))]
  /\ UNCHANGED <<config, compressionQueue, comp, rulesDir, adm, evt, flagProcTermEn, bootCompleted, created, ctxErr, guid, tracks, blacklist, filedumped,
                 running, events, queue, disp, semJobs, hookSem, hook, calls, everDumped>>

\* memdump: the deferred dumping.Del(guid)
memdumpDefer(j) ==
  /\ IsWorker(j, "memdump_defer")
  /\ dumping' = dumping \ {<<"guid", srcGUIDFromEvent(Ev(j))>>}
  /\ jobs' = [jobs EXCEPT ![j].pc = StageAfter("memdump", Ev(j))]
  /\ UNCHANGED <<config, compressionQueue, comp, rulesDir, adm, evt, flagProcTermEn, bootCompleted, created, ctxErr, guid, tracks, blacklist, memdumped, filedumped,
                 running, events, queue, disp, semJobs, hookSem, hook, calls, everDumped>>

kill_process(j) ==
  /\ IsWorker(j, "kill")
  /\ LET e == Ev(j)
         pt == processTrackFromEvent(e)
     IN /\ IF ~IsZero(pt) /\ NotAgent(pt.PID)
             THEN /\ calls' = TerminateProcess(pt.PID, jobs[j].k)
                  /\ running' = RunningAfterTerminate(pt.PID)
             ELSE UNCHANGED <<calls, running>>
        /\ jobs' = [jobs EXCEPT ![j].pc = StageAfter("kill", e)]
  /\ UNCHANGED <<config, compressionQueue, comp, rulesDir, adm, evt, flagProcTermEn, bootCompleted, created, ctxErr, guid, tracks, blacklist, memdumped, dumping, filedumped,
                 events, queue, disp, semJobs, hookSem, hook, everDumped>>

\* handling report dumping
HandleReport(j) ==
  /\ IsWorker(j, "report")
  /\ jobs' = [jobs EXCEPT ![j].pc = StageAfter("report", Ev(j)),
                          ![j].wrote = @ \cup {<<"report.json", "">>}]
  /\ UNCHANGED <<config, compressionQueue, comp, rulesDir, adm, evt, flagProcTermEn, bootCompleted, created, ctxErr, guid, tracks, blacklist, memdumped, dumping, filedumped,
                 running, events, queue, disp, semJobs, hookSem, hook, calls, everDumped>>

\* utils.ArgvFromCommandLine: the program name and its arguments
ArgvFromCommandLine(cmdLine) ==
  CASE cmdLine = "prog f2" -> <<"prog", "f2">>
    [] cmdLine = "prog rel" -> <<"prog", "rel">>
    [] cmdLine = "prog nofile" -> <<"prog", "nofile">>
    [] OTHER -> <<cmdLine>>

\* filepath.Join
filepathJoin(dir, name) == dir \o "/" \o name

\* listFilesFromCommandLine: both appends are under the test of the argument
\* as given
listFilesFromCommandLine(cmdLine, cwd) ==
  LET argv == ArgvFromCommandLine(cmdLine)
  IN  UNION { (IF IsFile(arg) /\ ~IsPipePath(arg) THEN {arg} ELSE {})
              \cup (IF cwd # "" /\ IsFile(arg) /\ ~IsPipePath(arg)
                      THEN {filepathJoin(cwd, arg)} ELSE {})
              : arg \in Range(Tail(argv)) }

\* filedumpSet: the image and parent image of the tracked process, the files
\* of its command line and of its parent's, and the event's file fields
filedumpSet(e) ==
  LET pt == processTrackFromEvent(e)
  IN  (IF ~IsZero(pt)
         THEN {pt.Image, pt.ParentImage}
              \cup listFilesFromCommandLine(pt.CommandLine, pt.CurrentDirectory)
              \cup listFilesFromCommandLine(pt.ParentCommandLine,
                                            pt.ParentCurrentDirectory)
         ELSE {})
      \cup (IF e.target # "none" THEN {e.target} ELSE {})

filedump(j) ==
  /\ IsWorker(j, "filedump")
  /\ jobs' = [jobs EXCEPT ![j].pc = "dumpFile", ![j].todo = filedumpSet(Ev(j))]
  /\ UNCHANGED <<config, compressionQueue, comp, rulesDir, adm, evt, flagProcTermEn, bootCompleted, created, ctxErr, guid, tracks, blacklist, memdumped, dumping, filedumped,
                 running, events, queue, disp, semJobs, hookSem, hook, calls, everDumped>>

\* filedump: the loop takes the next candidate; dumpBinFile has prepare
\* create the dump directory of the event and calls dumpFile
dumpBinFile(j) ==
  /\ IsWorker(j, "dumpFile")
  /\ IF jobs[j].todo = {}
       THEN jobs' = [jobs EXCEPT ![j].pc = StageAfter("filedump", Ev(j))]
       ELSE \E f \in jobs[j].todo :
              jobs' = [jobs EXCEPT ![j].todo = @ \ {f},
                                   ![j].cur = f,
                                   ![j].dir = TRUE,
                                   ![j].pc = "dumpFile_test"]
  /\ UNCHANGED <<config, compressionQueue, comp, rulesDir, adm, evt, flagProcTermEn, bootCompleted, created, ctxErr, guid, tracks, blacklist, memdumped, dumping, filedumped,
                 running, events, queue, disp, semJobs, hookSem, hook, calls, everDumped>>

\* dumpFile up to the test of filedumped: a source that is not a file, or is
\* a pipe path, is skipped; the others get their sidecar
dumpFile(j) ==
  /\ IsWorker(j, "dumpFile_test")
  /\ LET f == jobs[j].cur
     IN IF ~IsFile(f) \/ IsPipePath(f)
          THEN jobs' = [jobs EXCEPT ![j].pc = "dumpFile", ![j].cur = "none",
                                    ![j].ferr = "none"]
          ELSE IF <<"sha256", Sha256(f)>> \in filedumped
                 THEN jobs' = [jobs EXCEPT ![j].pc = "dumpFile", ![j].cur = "none",
                                           ![j].ferr = "none",
                                           ![j].wrote = @ \cup {<<"sha256", f>>}]
                 ELSE jobs' = [jobs EXCEPT ![j].pc = "dumpFile_copy",
                                           ![j].wrote = @ \cup {<<"sha256", f>>}]
  /\ UNCHANGED <<config, compressionQueue, comp, rulesDir, adm, evt, flagProcTermEn, bootCompleted, created, ctxErr, guid, tracks, blacklist, memdumped, dumping, filedumped,
                 running, events, queue, disp, semJobs, hookSem, hook, calls, everDumped>>

\* dumpFile: the body is copied and the hash marked, or the copy fails
dumpFileCopy(j) ==
  /\ IsWorker(j, "dumpFile_copy")
  /\ \E err \in BOOLEAN :
       IF err
         THEN /\ jobs' = [jobs EXCEPT ![j].pc = "dumpFile", ![j].cur = "none",
                                      ![j].ferr = "copy failed"]
              /\ UNCHANGED filedumped
         ELSE /\ jobs' = [jobs EXCEPT ![j].pc = "dumpFile", ![j].cur = "none",
                                      ![j].ferr = "none",
                                      ![j].wrote = @ \cup {<<"bin", jobs[j].cur>>}]
              /\ filedumped' = filedumped \cup {<<"sha256", Sha256(jobs[j].cur)>>}
  /\ UNCHANGED <<config, compressionQueue, comp, rulesDir, adm, evt, flagProcTermEn, bootCompleted, created, ctxErr, guid, tracks, blacklist, memdumped, dumping,
                 running, events, queue, disp, semJobs, hookSem, hook, calls, everDumped>>

\* regdump: a registry-value-set event (the one kind of event with a Details
\* field) whose Details is "Binary Data" has its value queried and written
regdump(j) ==
  /\ IsWorker(j, "regdump")
  /\ IF IsBinaryData(Ev(j).details)
       THEN \E err \in BOOLEAN :
              jobs' = [jobs EXCEPT ![j].pc = StageAfter("regdump", Ev(j)),
                                   ![j].query = RegQuery(err),
                                   ![j].wrote = @ \cup {<<"reg.txt", RegContent(err)>>}]
       ELSE jobs' = [jobs EXCEPT ![j].pc = StageAfter("regdump", Ev(j))]
  /\ UNCHANGED <<config, compressionQueue, comp, rulesDir, adm, evt, flagProcTermEn, bootCompleted, created, ctxErr, guid, tracks, blacklist, memdumped, dumping, filedumped,
                 running, events, queue, disp, semJobs, hookSem, hook, calls, everDumped>>

\* dumping the event, then the deferred semJobs.Release() of Run
HandleEvent(j) ==
  /\ IsWorker(j, "event")
  /\ jobs' = [jobs EXCEPT ![j].pc = "done", ![j].wrote = @ \cup {<<"event.json", "">>}]
  /\ semJobs' = semJobs - 1
  /\ UNCHANGED <<config, compressionQueue, comp, rulesDir, adm, evt, flagProcTermEn, bootCompleted, created, ctxErr, guid, tracks, blacklist, memdumped, dumping, filedumped,
                 running, events, queue, disp, hookSem, hook, calls, everDumped>>

HandleActions(j) ==
  \/ shouldDump(j)
  \/ HandleBlacklist(j)
  \/ suspend_process(j)
  \/ memdump(j)
  \/ memdumpAdd(j)
  \/ memdumpSnapshot(j)
  \/ memdumpDefer(j)
  \/ kill_process(j)
  \/ HandleReport(j)
  \/ filedump(j)
  \/ dumpBinFile(j)
  \/ dumpFile(j)
  \/ dumpFileCopy(j)
  \/ regdump(j)
  \/ HandleEvent(j)

(* ------------------- hids/hookdefs.go: hookHandleActions -------------- *)

KillNeverWaits(i, g) == FALSE

\* the guard of the kill waiter's poll loop
KillWaits(i, g) == i < PollLimit /\ g \notin memdumped

\* hookHandleActions is entered for a detection
hookHandleActions(d) ==
  /\ hook.pc = "idle"
  /\ Len(events) < MaxHooked
  /\ \A k \in DOMAIN events : events[k].via = "hook"
  /\ events' = Append(events, [det |-> d, via |-> "hook",
                                pushed |-> FALSE, late |-> ctxErr])
  /\ hook' = IF IsHIDSEvent(d) \/ srcGUIDFromEvent(d) = nullGUID
               THEN hook
               ELSE [pc |-> "actions", k |-> Len(events) + 1, n |-> 1,
                     kill |-> FALSE, memdump |-> FALSE]
  /\ UNCHANGED <<config, compressionQueue, comp, rulesDir, adm, evt, flagProcTermEn, bootCompleted, created, ctxErr, guid, tracks, blacklist, memdumped, dumping, filedumped,
                 running, queue, disp, semJobs, hookSem, jobs, calls, everDumped>>

\* the routine the switch starts for a dump action
RoutineOf(action) ==
  CASE action = ActionMemdump -> "dumpProcessRtn"
    [] action = ActionRegdump -> "dumpRegistryRtn"
    [] action = ActionFiledump -> "dumpFilesRtn"
    [] OTHER -> "dumpReportRtn"

\* one iteration of the loop over the actions
hookSwitch ==
  /\ hook.pc = "actions"
  /\ LET e == events[hook.k].det
         action == e.actions[hook.n]
         pt == processTrackFromEvent(e)
         last == hook.n = Len(e.actions)
     IN /\ hook' = [hook EXCEPT
                      !.n = @ + 1,
                      !.kill = @ \/ action = ActionKill,
                      !.memdump = @ \/ action = ActionMemdump,
                      !.pc = IF last THEN "kill" ELSE "actions"]
        /\ calls' = CASE action = ActionKill /\ ~IsZero(pt) /\ NotAgent(pt.PID) ->
                           SuspendProcess(pt.PID, hook.k)
                      [] action = ActionBlacklist /\ ~IsZero(pt) /\ NotAgent(pt.PID) ->
                           calls \cup {<<"blacklist", pt.CommandLine, hook.k>>}
                      [] OTHER -> calls
        /\ blacklist' = IF action = ActionBlacklist /\ ~IsZero(pt) /\ NotAgent(pt.PID)
                          THEN blacklist \cup {pt.CommandLine}
                          ELSE blacklist
        /\ jobs' = IF action \in {ActionMemdump, ActionRegdump, ActionFiledump, ActionReport}
                     THEN Append(jobs, NewJob(RoutineOf(action), hook.k, "acquire"))
                     ELSE jobs
  /\ UNCHANGED <<config, compressionQueue, comp, rulesDir, adm, evt, flagProcTermEn, bootCompleted, created, ctxErr, guid, tracks, memdumped, dumping, filedumped,
                 running, events, queue, disp, semJobs, hookSem, everDumped>>

\* handle kill operation after the other actions
hookKill ==
  /\ hook.pc = "kill"
  /\ LET e == events[hook.k].det
         pt == processTrackFromEvent(e)
         kills == hook.kill /\ ~IsZero(pt) /\ NotAgent(pt.PID)
     IN /\ jobs' = IF kills /\ hook.memdump
                     THEN Append(jobs, NewJob("killWait", hook.k, "wait"))
                     ELSE jobs
        /\ calls' = IF kills /\ ~hook.memdump THEN TerminateProcess(pt.PID, hook.k) ELSE calls
        /\ running' = IF kills /\ ~hook.memdump THEN RunningAfterTerminate(pt.PID) ELSE running
  /\ hook' = [pc |-> "idle", k |-> 0, n |-> 0, kill |-> FALSE, memdump |-> FALSE]
  /\ UNCHANGED <<config, compressionQueue, comp, rulesDir, adm, evt, flagProcTermEn, bootCompleted, created, ctxErr, guid, tracks, blacklist, memdumped, dumping, filedumped,
                 events, queue, disp, semJobs, hookSem, everDumped>>

\* the waiter sleeps one more second
killWaitSleep(j) ==
  /\ jobs[j].kind = "killWait" /\ jobs[j].pc = "wait"
  /\ KillWaits(jobs[j].i, srcGUIDFromEvent(Ev(j)))
  /\ jobs' = [jobs EXCEPT ![j].i = @ + 1]
  /\ UNCHANGED <<config, compressionQueue, comp, rulesDir, adm, evt, flagProcTermEn, bootCompleted, created, ctxErr, guid, tracks, blacklist, memdumped, dumping, filedumped,
                 running, events, queue, disp, semJobs, hookSem, hook, calls, everDumped>>

\* the waiter leaves the loop and terminates the process of the track it holds
killWaitTerminate(j) ==
  /\ jobs[j].kind = "killWait" /\ jobs[j].pc = "wait"
  /\ ~KillWaits(jobs[j].i, srcGUIDFromEvent(Ev(j)))
  /\ calls' = TerminateProcess(InitTracks[srcGUIDFromEvent(Ev(j))].PID, jobs[j].k)
  /\ running' = RunningAfterTerminate(InitTracks[srcGUIDFromEvent(Ev(j))].PID)
  /\ jobs' = [jobs EXCEPT ![j].pc = "done"]
  /\ UNCHANGED <<config, compressionQueue, comp, rulesDir, adm, evt, flagProcTermEn, bootCompleted, created, ctxErr, guid, tracks, blacklist, memdumped, dumping, filedumped,
                 events, queue, disp, semJobs, hookSem, hook, everDumped>>

(* ------------------ hids/hookdefs.go: the dump routines --------------- *)

IsRoutine(j, pc) ==
  /\ jobs[j].kind \in {"dumpProcessRtn", "dumpRegistryRtn", "dumpFilesRtn", "dumpReportRtn"}
  /\ jobs[j].pc = pc

\* the artifact path of a detection's event.json
EventPath(e) == <<"path", e>>

\* where a routine goes once its budget check has passed
AfterCheck(kind, e) ==
  CASE kind = "dumpProcessRtn" ->
         IF ~IsZero(GetByGuid(srcGUIDFromEvent(e))) THEN "dumpPid" ELSE "dumpEvent"
    [] kind = "dumpRegistryRtn" ->
         IF IsBinaryData(e.details) THEN "dumpEvent" ELSE "done"
    [] OTHER -> "dumpEvent"

\* where a routine goes once dumpEventAndCompress has returned
AfterEvent(kind) ==
  CASE kind = "dumpProcessRtn" -> "done"
    [] kind = "dumpRegistryRtn" -> "reg"
    [] kind = "dumpFilesRtn" -> "files"
    [] OTHER -> IF config.EnableReporting THEN "report" ELSE "done"

\* the files dumpFilesRtn reads from the event: the target of a file event,
\* the image otherwise
HookFiles(e) ==
  IF e.target # "none" THEN {e.target} ELSE {InitTracks[srcGUIDFromEvent(e)].Image} \ {""}

\* a routine moves to pc, releasing its slot when it returns
Goto(j, pc) == [jobs EXCEPT ![j].pc = pc]

SemAfter(pc) == IF pc = "done" THEN hookSem - 1 ELSE hookSem

\* hookSemaphore.Acquire() and the budget check
routineCheck(j) ==
  /\ IsRoutine(j, "acquire")
  /\ hookSem < HookSemJobs
  /\ LET e == Ev(j)
         g == srcGUIDFromEvent(e)
         ok == CheckDumpCount(g)
         pc == IF ok THEN AfterCheck(jobs[j].kind, e) ELSE "done"
     IN /\ tracks' = TracksAfterCheck(g)
        /\ jobs' = [jobs EXCEPT ![j].ok = IF ok THEN "yes" ELSE "no",
                                ![j].prior = Accepted(g),
                                ![j].had = ~IsZero(GetByGuid(g)),
                                ![j].pc = pc]
        /\ hookSem' = IF pc = "done" THEN hookSem ELSE hookSem + 1
  /\ UNCHANGED <<config, compressionQueue, comp, rulesDir, adm, evt, flagProcTermEn, bootCompleted, created, ctxErr, guid, blacklist, memdumped, dumping, filedumped,
                 running, events, queue, disp, semJobs, hook, calls, everDumped>>

\* dumpPidAndCompress: the test of line 798
dumpPidAndCompress(j) ==
  /\ IsRoutine(j, "dumpPid")
  /\ LET g == srcGUIDFromEvent(Ev(j))
         pid == InitTracks[g].PID
     IN jobs' = Goto(j, IF /\ IsPIDRunning(pid)
                           /\ NotAgent(pid)
                           /\ g \notin memdumped
                           /\ <<"guid", g>> \notin dumping
                          THEN "dumpPid_add" ELSE "dumpEvent")
  /\ UNCHANGED <<config, compressionQueue, comp, rulesDir, adm, evt, flagProcTermEn, bootCompleted, created, ctxErr, guid, tracks, blacklist, memdumped, dumping, filedumped,
                 running, events, queue, disp, semJobs, hookSem, hook, calls, everDumped>>

\* dumpPidAndCompress: dumping.Add(guid), then the snapshot call starts
dumpPidAdd(j) ==
  /\ IsRoutine(j, "dumpPid_add")
  /\ dumping' = dumping \cup {<<"guid", srcGUIDFromEvent(Ev(j))>>}
  /\ calls' = FullMemoryMiniDump(InitTracks[srcGUIDFromEvent(Ev(j))].PID, jobs[j].k)
  /\ jobs' = Goto(j, "dumpPid_snapshot")
  /\ UNCHANGED <<config, compressionQueue, comp, rulesDir, adm, evt, flagProcTermEn, bootCompleted, created, ctxErr, guid, tracks, blacklist, memdumped, filedumped,
                 running, events, queue, disp, semJobs, hookSem, hook, everDumped>>

\* dumpPidAndCompress: the snapshot call returns, with or without an error
dumpPidSnapshot(j) ==
  /\ IsRoutine(j, "dumpPid_snapshot")
  /\ \E err \in BOOLEAN :
       IF err
         THEN /\ jobs' = Goto(j, "dumpPid_defer")
              /\ UNCHANGED <<memdumped, everDumped>>
         ELSE /\ memdumped' = memdumped \cup {srcGUIDFromEvent(Ev(j))}
              /\ everDumped' = everDumped \cup {srcGUIDFromEvent(Ev(j))}
              /\ jobs' = [jobs EXCEPT ![j].pc = "dumpPid_defer",
                                      ![j].wrote = @ \cup {<<"dmp", srcGUIDFromEvent(Ev(j))>>}]
  /\ UNCHANGED <<config, compressionQueue, comp, rulesDir, adm, evt, flagProcTermEn, bootCompleted, created, ctxErr, guid, tracks, blacklist, dumping, filedumped,
                 running, events, queue, disp, semJobs, hookSem, hook, calls>>

\* dumpPidAndCompress: the deferred dumping.Del(guid)
dumpPidDefer(j) ==
  /\ IsRoutine(j, "dumpPid_defer")
  /\ dumping' = dumping \ {<<"guid", srcGUIDFromEvent(Ev(j))>>}
  /\ jobs' = Goto(j, "dumpEvent")
  /\ UNCHANGED <<config, compressionQueue, comp, rulesDir, adm, evt, flagProcTermEn, bootCompleted, created, ctxErr, guid, tracks, blacklist, memdumped, filedumped,
                 running, events, queue, disp, semJobs, hookSem, hook, calls, everDumped>>

\* dumpEventAndCompress: the test of line 854
dumpEventAndCompress(j) ==
  /\ IsRoutine(j, "dumpEvent")
  /\ LET pc == IF EventPath(Ev(j)) \notin dumping /\ EventPath(Ev(j)) \notin filedumped
                 THEN "dumpEvent_add" ELSE AfterEvent(jobs[j].kind)
     IN /\ jobs' = Goto(j, pc)
        /\ hookSem' = SemAfter(pc)
  /\ UNCHANGED <<config, compressionQueue, comp, rulesDir, adm, evt, flagProcTermEn, bootCompleted, created, ctxErr, guid, tracks, blacklist, memdumped, dumping, filedumped,
                 running, events, queue, disp, semJobs, hook, calls, everDumped>>

\* dumpEventAndCompress: dumping.Add(dumpPath)
dumpEventAdd(j) ==
  /\ IsRoutine(j, "dumpEvent_add")
  /\ dumping' = dumping \cup {EventPath(Ev(j))}
  /\ jobs' = Goto(j, "dumpEvent_write")
  /\ UNCHANGED <<config, compressionQueue, comp, rulesDir, adm, evt, flagProcTermEn, bootCompleted, created, ctxErr, guid, tracks, blacklist, memdumped, filedumped,
                 running, events, queue, disp, semJobs, hookSem, hook, calls, everDumped>>

\* dumpEventAndCompress: the event is written and marked, dumping.Del deferred
dumpEventWrite(j) ==
  /\ IsRoutine(j, "dumpEvent_write")
  /\ filedumped' = filedumped \cup {EventPath(Ev(j))}
  /\ dumping' = dumping \ {EventPath(Ev(j))}
  /\ LET pc == AfterEvent(jobs[j].kind)
     IN /\ jobs' = [jobs EXCEPT ![j].pc = pc, ![j].wrote = @ \cup {<<"event.json", "">>}]
        /\ hookSem' = SemAfter(pc)
  /\ UNCHANGED <<config, compressionQueue, comp, rulesDir, adm, evt, flagProcTermEn, bootCompleted, created, ctxErr, guid, tracks, blacklist, memdumped,
                 running, events, queue, disp, semJobs, hook, calls, everDumped>>

\* dumpRegistryRtn: the registry value is queried and written
dumpRegistryRtn(j) ==
  /\ IsRoutine(j, "reg")
  /\ \E err \in BOOLEAN :
       jobs' = [jobs EXCEPT ![j].pc = "done",
                            ![j].query = RegQuery(err),
                            ![j].wrote = @ \cup {<<"reg.txt", RegContent(err)>>}]
  /\ hookSem' = hookSem - 1
  /\ UNCHANGED <<config, compressionQueue, comp, rulesDir, adm, evt, flagProcTermEn, bootCompleted, created, ctxErr, guid, tracks, blacklist, memdumped, dumping, filedumped,
                 running, events, queue, disp, semJobs, hook, calls, everDumped>>

\* dumpReportRtn: the report is generated and written
dumpReportRtn(j) ==
  /\ IsRoutine(j, "report")
  /\ jobs' = [jobs EXCEPT ![j].pc = "done", ![j].wrote = @ \cup {<<"report.json", "">>}]
  /\ hookSem' = hookSem - 1
  /\ UNCHANGED <<config, compressionQueue, comp, rulesDir, adm, evt, flagProcTermEn, bootCompleted, created, ctxErr, guid, tracks, blacklist, memdumped, dumping, filedumped,
                 running, events, queue, disp, semJobs, hook, calls, everDumped>>

\* dumpFilesRtn: the files of the event
dumpFilesRtn(j) ==
  /\ IsRoutine(j, "files")
  /\ jobs' = [jobs EXCEPT ![j].pc = "dumpFile", ![j].todo = HookFiles(Ev(j))]
  /\ UNCHANGED <<config, compressionQueue, comp, rulesDir, adm, evt, flagProcTermEn, bootCompleted, created, ctxErr, guid, tracks, blacklist, memdumped, dumping, filedumped,
                 running, events, queue, disp, semJobs, hookSem, hook, calls, everDumped>>

\* dumpFileAndCompress up to the test of filedumped: the hash and its sidecar
dumpFileAndCompress(j) ==
  /\ IsRoutine(j, "dumpFile")
  /\ IF jobs[j].todo = {}
       THEN /\ jobs' = Goto(j, "done")
            /\ hookSem' = hookSem - 1
       ELSE /\ \E f \in jobs[j].todo :
                 IF ~IsFile(f)
                   THEN jobs' = [jobs EXCEPT ![j].todo = @ \ {f}]
                   ELSE jobs' = [jobs EXCEPT
                          ![j].todo = @ \ {f},
                          ![j].cur = f,
                          ![j].wrote = @ \cup {<<"sha256", f>>},
                          ![j].pc = IF <<"sha256", Sha256(f)>> \in filedumped
                                      THEN "dumpFile" ELSE "dumpFile_copy"]
            /\ UNCHANGED hookSem
  /\ UNCHANGED <<config, compressionQueue, comp, rulesDir, adm, evt, flagProcTermEn, bootCompleted, created, ctxErr, guid, tracks, blacklist, memdumped, dumping, filedumped,
                 running, events, queue, disp, semJobs, hook, calls, everDumped>>

\* dumpFileAndCompress: the body is copied and the hash marked, or the copy fails
dumpFileAndCompressCopy(j) ==
  /\ IsRoutine(j, "dumpFile_copy")
  /\ \E err \in BOOLEAN :
       IF err
         THEN /\ jobs' = [jobs EXCEPT ![j].pc = "dumpFile", ![j].cur = "none"]
              /\ UNCHANGED filedumped
         ELSE /\ jobs' = [jobs EXCEPT ![j].pc = "dumpFile", ![j].cur = "none",
                                      ![j].wrote = @ \cup {<<"bin", jobs[j].cur>>}]
              /\ filedumped' = filedumped \cup {<<"sha256", Sha256(jobs[j].cur)>>}
  /\ UNCHANGED <<config, compressionQueue, comp, rulesDir, adm, evt, flagProcTermEn, bootCompleted, created, ctxErr, guid, tracks, blacklist, memdumped, dumping,
                 running, events, queue, disp, semJobs, hookSem, hook, calls, everDumped>>

Routine(j) ==
  \/ routineCheck(j)
  \/ dumpPidAndCompress(j)
  \/ dumpPidAdd(j)
  \/ dumpPidSnapshot(j)
  \/ dumpPidDefer(j)
  \/ dumpEventAndCompress(j)
  \/ dumpEventAdd(j)
  \/ dumpEventWrite(j)
  \/ dumpRegistryRtn(j)
  \/ dumpReportRtn(j)
  \/ dumpFilesRtn(j)
  \/ dumpFileAndCompress(j)
  \/ dumpFileAndCompressCopy(j)

(* ------------- hids/hookdefs.go: hookTerminator, hookProcTerm --------- *)

IsBlacklistedAlways(commandLine) == TRUE
IsBlacklisted(commandLine) == commandLine \in blacklist

\* hook terminating previously blacklisted processes
hookTerminator(c) ==
  /\ hook.pc = "idle"
  /\ IsBlacklisted(c.cmd)
  /\ calls' = terminate(c.pid, 0) \cup {<<"blacklisted", c.pid, 0>>}
  /\ running' = IF c.pid # SelfPid THEN RunningAfterTerminate(c.pid) ELSE running
  /\ UNCHANGED <<config, compressionQueue, comp, rulesDir, adm, evt, flagProcTermEn, bootCompleted, created, ctxErr, guid, tracks, blacklist, memdumped, dumping, filedumped,
                 events, queue, disp, semJobs, hookSem, hook, jobs, everDumped>>

\* the termination event of a tracked process that has exited
hookProcTerm(g) ==
  /\ hook.pc = "idle"
  /\ ~IsZero(GetByGuid(g))
  /\ ~IsPIDRunning(GetByGuid(g).PID)
  /\ flagProcTermEn' = TRUE
  /\ tracks' = [tracks EXCEPT ![g] = ZeroTrack]
  /\ memdumped' = memdumped \ {g}
  /\ UNCHANGED <<config, compressionQueue, comp, rulesDir, adm, evt, bootCompleted, created, ctxErr, guid, blacklist, dumping, filedumped, running,
                 events, queue, disp, semJobs, hookSem, hook, jobs, calls, everDumped>>

(* ---------------------- hids/hookdefs.go: hookTrack -------------------- *)

\* an event as a hook left it: the hook, the event's ProcessGuid and the
\* fields the hook set on it
NoEvent == [hook |-> "none", guid |-> "", out |-> <<>>]
Enriched(h, g, fields) == [hook |-> h, guid |-> g, out |-> fields]

LogonUI == "LogonUI.exe"

\* a Sysmon process-creation event: ProcessGuid, ProcessId, Image,
\* CommandLine, ParentProcessGuid, ParentProcessId, ParentImage; User,
\* IntegrityLevel and CurrentDirectory are told apart by the PID, Hashes is
\* the hash of the image, ParentCommandLine is named after the parent
Creation(g, pid, image, cmd, pguid, ppid, pimage) ==
  [guid |-> g, pid |-> pid, image |-> image, cmd |-> cmd,
   pguid |-> pguid, ppid |-> ppid, pimage |-> pimage,
   pcmd |-> "c" \o pguid, user |-> "u" \o pid, il |-> "il" \o pid,
   cd |-> "d" \o pid, hashes |-> "h" \o image]

\* the processes started while the agent runs: g2 is a child of the
\* tracked g1, g3 a child of g2, g4 and the logon screen gL are children of
\* gU, the process that was there before the agent
TrackCreations ==
  { Creation("g2", "p2", "f2", "c2", "g1", "p1", "f1"),
    Creation("g3", "p3", "f1", "c3", "g2", "p2", "f2"),
    Creation("g4", "p4", "f2", "c4", "gU", "pU", "fU"),
    Creation("gL", "pL", LogonUI, "cL", "gU", "pU", "fU") }

\* Sysmon reports a creation while the parent is alive, and reports events
\* in the order they happened
ParentAlive(c) == c.ppid = "pU" \/ IsPIDRunning(c.ppid)

\* a gate that stays open
TrackingEnabledAlways == TRUE

\* the gate of hookTrack
TrackingEnabled == flagProcTermEn \/ ~bootCompleted

NewProcessTrack(image, pguid, g, pid) ==
  [ZeroTrack EXCEPT !.PID = pid, !.Image = image, !.ParentProcessGUID = pguid]

\* a chain that inherits the parent's chain without the parent's image
AncestorsOfParentChain(c) ==
  LET parent == GetByGuid(c.pguid)
  IN  IF ~IsZero(parent) THEN parent.Ancestors ELSE <<c.pimage>>

\* the ancestor chain hookTrack gives the new track
AncestorsOf(c) ==
  LET parent == GetByGuid(c.pguid)
  IN  IF ~IsZero(parent)
        THEN Append(parent.Ancestors, parent.Image)
        ELSE Append(NewProcessTrack(c.image, c.pguid, c.guid, c.pid).Ancestors,
                    c.pimage)

\* the capacity append gives a slice that has no room left
GrowCap(cap) == IF cap = 0 THEN 1 ELSE 2 * cap

\* the slice append extends: the parent's chain for a tracked parent, the new
\* track's own (empty) chain otherwise
AppendedTo(c) ==
  LET parent == GetByGuid(c.pguid)
  IN  IF ~IsZero(parent)
        THEN parent
        ELSE NewProcessTrack(c.image, c.pguid, c.guid, c.pid)

\* append writes in place when the slice has room, into the backing array
\* of the slice it extends
AppendsInPlace(c) == Len(AppendedTo(c).Ancestors) < AppendedTo(c).AncCap

\* the backing array and the capacity of the chain append returns: those of
\* the extended slice when it has room, a new array otherwise
AncArrOf(c) == IF AppendsInPlace(c) THEN AppendedTo(c).AncArr ELSE c.guid
AncCapOf(c) ==
  IF AppendsInPlace(c)
    THEN AppendedTo(c).AncCap
    ELSE GrowCap(AppendedTo(c).AncCap)

\* strings.Join
RECURSIVE Join(_, _)
Join(elems, sep) ==
  IF elems = <<>> THEN ""
  ELSE IF Len(elems) = 1 THEN elems[1]
  ELSE elems[1] \o sep \o Join(Tail(elems), sep)

\* a track that takes nothing from the parent's track but the chain
TrackOfOwnFields(c) ==
  [NewProcessTrack(c.image, c.pguid, c.guid, c.pid) EXCEPT
     !.ParentImage = c.pimage, !.CommandLine = c.cmd,
     !.ParentCommandLine = c.pcmd, !.CurrentDirectory = c.cd,
     !.User = c.user, !.IntegrityLevel = c.il, !.hashes = c.hashes,
     !.Ancestors = AncestorsOf(c),
     !.AncArr = AncArrOf(c), !.AncCap = AncCapOf(c)]

\* the track hookTrack builds for a creation event
TrackOf(c) ==
  LET parent == GetByGuid(c.pguid)
      track == [NewProcessTrack(c.image, c.pguid, c.guid, c.pid) EXCEPT
                  !.ParentImage = c.pimage,
                  !.CommandLine = c.cmd,
                  !.ParentCommandLine = c.pcmd,
                  !.CurrentDirectory = c.cd,
                  !.User = c.user,
                  !.IntegrityLevel = c.il,
                  !.hashes = c.hashes,
                  !.AncArr = AncArrOf(c),
                  !.AncCap = AncCapOf(c)]
  IN  IF ~IsZero(parent)
        THEN [track EXCEPT
                !.Ancestors = AncestorsOf(c),
                !.ParentUser = parent.User,
                !.ParentIntegrityLevel = parent.IntegrityLevel,
                !.ParentServices = parent.Services,
                !.ParentCurrentDirectory = parent.CurrentDirectory]
        ELSE [track EXCEPT !.Ancestors = AncestorsOf(c)]

\* e.Set(path, value) when value is not empty, the default "?" otherwise
SetIfNotEmpty(value) == IF value # "" THEN value ELSE "?"

\* the lineage fields hookTrack leaves on the event
LineageDefaults ==
  [Ancestors |-> "?", ParentUser |-> "?", ParentIntegrityLevel |-> "?",
   ParentServices |-> "?"]
LineageOf(track) ==
  [Ancestors |-> Join(track.Ancestors, "|"),
   ParentUser |-> SetIfNotEmpty(track.ParentUser),
   ParentIntegrityLevel |-> SetIfNotEmpty(track.ParentIntegrityLevel),
   ParentServices |-> SetIfNotEmpty(track.ParentServices)]

\* the store once append has written the last element of t's chain: every
\* chain that lies in the same backing array and reaches that position reads
\* the value written
Appended(t) ==
  LET n == Len(t.Ancestors)
  IN  [x \in DOMAIN tracks |->
         IF tracks[x].AncArr = t.AncArr /\ Len(tracks[x].Ancestors) >= n
           THEN [tracks[x] EXCEPT !.Ancestors = [@ EXCEPT ![n] = t.Ancestors[n]]]
           ELSE tracks[x]]

\* processTracker.Add: a GUID already in the store keeps its track
TrackerAdd(g, t) ==
  LET store == Appended(t)
  IN  IF ~IsZero(GetByGuid(g))
        THEN store
        ELSE [x \in DOMAIN store \cup {g} |-> IF x = g THEN t ELSE store[x]]

\* the creation event of a process the OS has just started
hookTrack(c) ==
  /\ hook.pc = "idle"
  /\ \A s \in created : s.guid # c.guid
  /\ ParentAlive(c)
  /\ ~IsPIDRunning(c.pid)
  /\ running' = running \cup {c.pid}
  /\ IF TrackingEnabled
       THEN /\ bootCompleted' = (bootCompleted \/ c.image = LogonUI)
            /\ tracks' = TrackerAdd(c.guid, TrackOf(c))
            /\ evt' = Enriched("hookTrack", c.guid, LineageOf(TrackOf(c)))
            /\ created' = created \cup {[guid |-> c.guid, tracked |-> TRUE]}
       ELSE /\ evt' = Enriched("hookTrack", c.guid, LineageDefaults)
            /\ created' = created \cup {[guid |-> c.guid, tracked |-> FALSE]}
            /\ UNCHANGED <<bootCompleted, tracks>>
  /\ UNCHANGED <<config, compressionQueue, comp, rulesDir, adm, flagProcTermEn, ctxErr, guid, blacklist, memdumped,
                 dumping, filedumped, events, queue, disp, semJobs, hookSem,
                 hook, jobs, calls, everDumped>>

\* a process other than the agent exits on its own
ProcessExit(pid) ==
  /\ pid \in running \ {SelfPid}
  /\ running' = running \ {pid}
  /\ UNCHANGED <<config, compressionQueue, comp, rulesDir, adm, evt, flagProcTermEn, bootCompleted, created, ctxErr, guid,
                 tracks, blacklist, memdumped, dumping, filedumped, events,
                 queue, disp, semJobs, hookSem, hook, jobs, calls, everDumped>>

(* ----------------- hids/hookdefs.go: the enrichment hooks -------------- *)

\* a field the event does not have
Absent == "<absent>"

(* ------------------- hids/hookdefs.go: hookSelfGUID -------------------- *)

\* the path of the agent's executable
selfPath == "fS"

\* events seen by hookSelfGUID: the EventID, Image and ProcessGuid,
\* ParentImage and ParentProcessGuid (Absent on events without the field)
SelfEvent(id, image, g, pimage, pguid) ==
  [id |-> id, image |-> image, guid |-> g, pimage |-> pimage, pguid |-> pguid]

\* the agent is created by f1, it starts a child of its own image and a
\* child of another image, another process is created, the agent opens a
\* connection, and a creation event names the agent as parent with the
\* parent GUID missing
SelfEvents ==
  { SelfEvent("ProcessCreate", selfPath, "gS", "f1", "g1"),
    SelfEvent("ProcessCreate", selfPath, "gT", selfPath, "gS"),
    SelfEvent("ProcessCreate", "f2", "g2", selfPath, "gS"),
    SelfEvent("ProcessCreate", "f2", "g3", "f1", "g1"),
    SelfEvent("NetworkConnect", selfPath, "gS", Absent, Absent),
    SelfEvent("ProcessCreate", selfPath, "gT", selfPath, Absent) }

\* the GUID read from the image, before the parent image is looked at
SelfGUIDImageFirst(e) ==
  IF e.image = selfPath THEN e.guid
  ELSE IF e.pimage = selfPath /\ e.pguid # Absent THEN e.pguid
  ELSE NoGuid

\* the GUID hookSelfGUID reads from a creation event, NoGuid when none
SelfGUID(e) ==
  IF e.pimage = selfPath /\ e.pguid # Absent THEN e.pguid
  ELSE IF e.image = selfPath THEN e.guid
  ELSE NoGuid

hookSelfGUID(e) ==
  /\ hook.pc = "idle"
  /\ evt' = Enriched("hookSelfGUID", e.guid, e)
  /\ guid' = IF guid = NoGuid /\ e.id = "ProcessCreate" /\ SelfGUID(e) # NoGuid
               THEN SelfGUID(e)
               ELSE guid
  /\ UNCHANGED <<config, compressionQueue, comp, rulesDir, adm, flagProcTermEn,
                 bootCompleted, created, ctxErr, tracks, blacklist, memdumped,
                 dumping, filedumped, running, events, queue, disp, semJobs,
                 hookSem, hook, jobs, calls, everDumped>>


toStringBool(b) == IF b THEN "true" ELSE "false"

\* an image-load event of a running process: Image is the image of the
\* process, ImageLoaded the module it loads (its own executable or a DLL),
\* and Signed, Signature, SignatureStatus describe ImageLoaded
ImageLoad(g, image, loaded, signed, signature, status) ==
  [guid |-> g, image |-> image, loaded |-> loaded, signed |-> signed,
   signature |-> signature, status |-> status]

ImageLoads ==
  { ImageLoad("g1", "f1", "f1", FALSE, "", "Unavailable"),
    ImageLoad("g1", "f1", "dll", TRUE, "sigDll", "Valid"),
    ImageLoad("gU", "fU", "dll", TRUE, "sigDll", "Valid") }

hookImageLoad(e) ==
  LET track == GetByGuid(e.guid)
  IN  /\ hook.pc = "idle"
      /\ IF ~IsZero(track)
           THEN /\ tracks' =
                     IF e.image = track.Image
                       THEN [tracks EXCEPT ![e.guid] =
                               [track EXCEPT !.Signed = e.signed,
                                             !.Signature = e.signature,
                                             !.SignatureStatus = e.status]]
                       ELSE tracks
                /\ evt' = Enriched("hookImageLoad", e.guid,
                            [ImageLoaded |-> e.loaded,
                             ParentImage |-> track.ParentImage,
                             ParentCommandLine |-> track.ParentCommandLine])
           ELSE /\ tracks' = tracks
                /\ evt' = Enriched("hookImageLoad", e.guid,
                            [ImageLoaded |-> e.loaded,
                             ParentImage |-> "?", ParentCommandLine |-> "?"])
      /\ UNCHANGED <<config, compressionQueue, comp, rulesDir, adm, flagProcTermEn, bootCompleted, created, ctxErr,
                     guid, blacklist, memdumped, dumping, filedumped, running,
                     events, queue, disp, semJobs, hookSem, hook, jobs, calls,
                     everDumped>>

\* file-create and file-delete events: the event id, the ProcessGuid and the
\* TargetFilename
FileEvents ==
  [id : {"FileCreate", "FileDelete"}, guid : {"g1", "gU"},
   target : {"a.txt", "noext"}]

\* filepath.Ext
Ext(target) == IF target = "a.txt" THEN ".txt" ELSE ""

StatFields == {"FileCount", "FileCountByExt", "FileExtension", "FileFrequency"}

hookStats(e) ==
  LET pt == GetByGuid(e.guid)
      ext == Ext(e.target)
      created_ == e.id = "FileCreate"
      count == IF created_ THEN pt.CountFilesCreated ELSE pt.CountFilesDeleted
      byExt == IF created_ THEN pt.CountFilesCreatedByExt
                           ELSE pt.CountFilesDeletedByExt
      first == IF created_ THEN pt.FirstFileCreated ELSE pt.FirstFileDeleted
  IN  /\ hook.pc = "idle"
      /\ IF flagProcTermEn /\ ~IsZero(pt)
           THEN /\ count < MaxFiles
                /\ tracks' = [tracks EXCEPT ![e.guid] =
                     IF created_
                       THEN [pt EXCEPT !.FirstFileCreated = TRUE,
                                       !.CountFilesCreatedByExt[ext] = @ + 1,
                                       !.CountFilesCreated = @ + 1]
                       ELSE [pt EXCEPT !.FirstFileDeleted = TRUE,
                                       !.CountFilesDeletedByExt[ext] = @ + 1,
                                       !.CountFilesDeleted = @ + 1]]
                \* the frequency is 0 when no time has passed since the first
                \* file event of the process
                /\ \E freq \in IF first THEN {"0", ToString(count + 1)}
                                        ELSE {"0"} :
                     evt' = Enriched("hookStats", e.guid,
                              [f \in StatFields |->
                                 CASE f = "FileCount" -> ToString(count + 1)
                                   [] f = "FileCountByExt" ->
                                        ToString(byExt[ext] + 1)
                                   [] f = "FileExtension" -> ext
                                   [] f = "FileFrequency" -> freq])
           ELSE /\ tracks' = tracks
                /\ evt' = Enriched("hookStats", e.guid,
                                   [f \in StatFields |-> Absent])
      /\ UNCHANGED <<config, compressionQueue, comp, rulesDir, adm, flagProcTermEn, bootCompleted, created, ctxErr,
                     guid, blacklist, memdumped, dumping, filedumped, running,
                     events, queue, disp, semJobs, hookSem, hook, jobs, calls,
                     everDumped>>

\* GeneScore.UpdateCriticality: keep the highest criticality seen
Max(a, b) == IF a >= b THEN a ELSE b
UpdateCriticalityLast(score, criticality) == criticality
UpdateCriticality(score, criticality) == Max(score, criticality)

\* events the detection engine has seen: the source GUID, the criticality
\* and whether the engine annotated the event with signatures
ScoredEvents == [guid : {"g1", "gS", "gU"}, crit : {3, 7}, sig : BOOLEAN]

hookUpdateGeneScore(e) ==
  LET t == processTrackFromEvent(e)
  IN  /\ hook.pc = "idle"
      /\ tracks' =
           IF ~IsHIDSEvent(e) /\ ~IsZero(t) /\ e.sig
             THEN [tracks EXCEPT ![srcGUIDFromEvent(e)].Score =
                                    UpdateCriticality(@, e.crit)]
             ELSE tracks
      /\ evt' = Enriched("hookUpdateGeneScore", e.guid,
                         [Criticality |-> e.crit, Signature |-> e.sig])
      /\ UNCHANGED <<config, compressionQueue, comp, rulesDir, adm, flagProcTermEn, bootCompleted, created, ctxErr,
                     guid, blacklist, memdumped, dumping, filedumped, running,
                     events, queue, disp, semJobs, hookSem, hook, jobs, calls,
                     everDumped>>

\* events other than process creation, driver load, remote thread and
\* process access: the ProcessGuid and the standard fields the event has
StdFields == {"CommandLine", "User", "IntegrityLevel", "CurrentDirectory"}
EnrichFields ==
  StdFields \cup {"ImageHashes", "ImageSigned", "ImageSignature",
                  "ImageSignatureStatus", "ProcessGeneScore"}
AnyEvents == [guid : {"g1", "gU"}, has : {{}, {"CommandLine"}, StdFields}]

eventHas(e, f) == f \in e.has

\* the value a field has in the event itself
OwnValue(e, f) == IF eventHas(e, f) THEN "own" ELSE Absent

TrackValue(track, f) ==
  CASE f = "CommandLine" -> track.CommandLine
    [] f = "User" -> track.User
    [] f = "IntegrityLevel" -> track.IntegrityLevel
    [] f = "CurrentDirectory" -> track.CurrentDirectory

hookEnrichAnySysmon(e) ==
  LET track == GetByGuid(e.guid)
  IN  /\ hook.pc = "idle"
      /\ evt' = Enriched("hookEnrichAnySysmon", e.guid,
           [f \in EnrichFields |->
              IF IsZero(track)
                THEN IF f = "ProcessGeneScore" THEN "-1" ELSE OwnValue(e, f)
                ELSE CASE f \in StdFields ->
                            IF eventHas(e, f) THEN OwnValue(e, f)
                            ELSE SetIfNotEmpty(TrackValue(track, f))
                       [] f = "ImageHashes" -> SetIfNotEmpty(track.hashes)
                       [] f = "ImageSigned" -> toStringBool(track.Signed)
                       [] f = "ImageSignature" -> track.Signature
                       [] f = "ImageSignatureStatus" -> track.SignatureStatus
                       [] f = "ProcessGeneScore" -> ToString(track.Score)])
      /\ UNCHANGED <<config, compressionQueue, comp, rulesDir, adm, flagProcTermEn, bootCompleted, created, ctxErr,
                     guid, tracks, blacklist, memdumped, dumping, filedumped,
                     running, events, queue, disp, semJobs, hookSem, hook,
                     jobs, calls, everDumped>>

(* ------------- api/manager_admin_api.go: rewriting the rules ---------- *)

\* the rules the engine has loaded, and the rule files they were loaded from
EngineRules == {"r1", "r2"}
RuleFiles == [f \in {"a.gen", "b.gen"} |-> IF f = "a.gen" THEN {"r1"} ELSE {"r2"}]

\* the body of a POST with update: a new version of r2
NewRules == [r \in {"r2"} |-> "r2v2"]

rulesBasename == "compiled-updated.gen"
TmpPath == "compiled-updated.gen.tmp"

\* engine.DefaultRuleExtensions.Contains(filepath.Ext(fp))
IsRuleFile(fp) == fp # TmpPath

Without(dir, fp) == [x \in DOMAIN dir \ {fp} |-> dir[x]]
WithFile(dir, fp, content) ==
  [x \in DOMAIN dir \cup {fp} |-> IF x = fp THEN content ELSE dir[x]]

\* the rule files of a directory
RuleFilesOf(dir) == [x \in {y \in DOMAIN dir : IsRuleFile(y)} |-> dir[x]]

\* the rules each operation writes to the temporary file
ToWrite(op, name) ==
  CASE op = "DELETE" -> EngineRules \ {name}
    [] op = "POST" -> (EngineRules \ DOMAIN NewRules)
                        \cup {NewRules[r] : r \in DOMAIN NewRules}
    [] op = "SAVE" -> EngineRules

admFailed == [adm EXCEPT !.pc = "idle", !.result = "failed"]

\* the request arrives and os.Create makes the temporary file, or fails; a
\* POST then decodes its body, which may fail
admCreate(op, name) ==
  /\ adm.pc = "idle"
  /\ op = "DELETE" => name \in EngineRules
  /\ \/ /\ adm' = [pc |-> "idle", op |-> op, towrite |-> {},
                   result |-> "failed", before |-> rulesDir]
        /\ rulesDir' = rulesDir
     \/ /\ op = "POST"
        /\ adm' = [pc |-> "idle", op |-> op, towrite |-> {},
                   result |-> "failed", before |-> rulesDir]
        /\ rulesDir' = WithFile(rulesDir, TmpPath, {})
     \/ /\ adm' = [pc |-> "remove", op |-> op, towrite |-> ToWrite(op, name),
                   result |-> "none", before |-> rulesDir]
        /\ rulesDir' = WithFile(rulesDir, TmpPath, {})
  /\ UNCHANGED <<config, compressionQueue, comp, evt, flagProcTermEn, bootCompleted, created, ctxErr,
                 guid, tracks, blacklist, memdumped, dumping, filedumped,
                 running, events, queue, disp, semJobs, hookSem, hook, jobs,
                 calls, everDumped>>

\* we delete previous rule files: one os.Remove, which may fail
admRemove ==
  /\ adm.pc = "remove"
  /\ IF DOMAIN RuleFilesOf(rulesDir) = {}
       THEN adm' = [adm EXCEPT !.pc = "write"] /\ rulesDir' = rulesDir
       ELSE \E fp \in DOMAIN RuleFilesOf(rulesDir) :
              \/ adm' = adm /\ rulesDir' = Without(rulesDir, fp)
              \/ adm' = admFailed /\ rulesDir' = rulesDir
  /\ UNCHANGED <<config, compressionQueue, comp, evt, flagProcTermEn, bootCompleted, created, ctxErr,
                 guid, tracks, blacklist, memdumped, dumping, filedumped,
                 running, events, queue, disp, semJobs, hookSem, hook, jobs,
                 calls, everDumped>>

\* we update the rule file: one fd.WriteString, which may fail
admWrite ==
  /\ adm.pc = "write"
  /\ IF adm.towrite = {}
       THEN adm' = [adm EXCEPT !.pc = "rename"] /\ rulesDir' = rulesDir
       ELSE \E r \in adm.towrite :
              \/ /\ adm' = [adm EXCEPT !.towrite = @ \ {r}]
                 /\ rulesDir' = [rulesDir EXCEPT ![TmpPath] = @ \cup {r}]
              \/ adm' = admFailed /\ rulesDir' = rulesDir
  /\ UNCHANGED <<config, compressionQueue, comp, evt, flagProcTermEn, bootCompleted, created, ctxErr,
                 guid, tracks, blacklist, memdumped, dumping, filedumped,
                 running, events, queue, disp, semJobs, hookSem, hook, jobs,
                 calls, everDumped>>

\* os.Rename of the temporary file, which may fail
admRename ==
  /\ adm.pc = "rename"
  /\ \/ /\ adm' = [adm EXCEPT !.pc = "idle", !.result = "ok"]
        /\ rulesDir' = WithFile(Without(rulesDir, TmpPath), rulesBasename,
                                rulesDir[TmpPath])
     \/ adm' = admFailed /\ rulesDir' = rulesDir
  /\ UNCHANGED <<config, compressionQueue, comp, evt, flagProcTermEn, bootCompleted, created, ctxErr,
                 guid, tracks, blacklist, memdumped, dumping, filedumped,
                 running, events, queue, disp, semJobs, hookSem, hook, jobs,
                 calls, everDumped>>

Started ==
  /\ flagProcTermEn = FALSE
  /\ bootCompleted = FALSE
  /\ created = {}
  /\ evt = NoEvent
  /\ compressionQueue = <<>>
  /\ comp = [pc |-> "outer", path |-> <<>>, err |-> FALSE]
  /\ rulesDir = RuleFiles
  /\ adm = [pc |-> "idle", op |-> "none", towrite |-> {}, result |-> "none",
            before |-> RuleFiles]
  /\ ctxErr = FALSE
  /\ guid \in {NoGuid, "gS"}
  /\ tracks = InitTracks
  /\ blacklist = {}
  /\ memdumped = {}
  /\ dumping = {}
  /\ filedumped = {}
  /\ running = {"p1", SelfPid}
  /\ events = <<>>
  /\ queue = <<>>
  /\ disp = [pc |-> "loop", evt |-> 0]
  /\ semJobs = 0
  /\ hookSem = 0
  /\ hook = [pc |-> "idle", k |-> 0, n |-> 0, kill |-> FALSE, memdump |-> FALSE]
  /\ jobs = <<>>
  /\ calls = {}
  /\ everDumped = {}

Init == config \in Configs /\ Started

Next ==
  \/ \E d \in Detections : Queue(d)
  \/ RunPop
  \/ RunAcquire
  \/ \E j \in DOMAIN jobs : HandleActions(j)
  \/ \E d \in HookDetections : hookHandleActions(d)
  \/ hookSwitch
  \/ hookKill
  \/ \E j \in DOMAIN jobs : killWaitSleep(j) \/ killWaitTerminate(j) \/ Routine(j)
  \/ \E c \in Creations : hookTerminator(c)
  \/ \E g \in Guids : hookProcTerm(g)

Spec == Init /\ [][Next]_vars

\* a burst of detections handed to Queue, and a shutdown signal
Burst ==
  { Det("g1", <<ActionKill>>, "none", "none"),
    Det("g1", <<ActionRegdump>>, "none", "Binary Data"),
    Det("gS", <<ActionKill>>, "none", "none") }

\* a detection whose three dump actions each start a hook dump routine
HookBurst ==
  { Det("g1", <<ActionFiledump, ActionRegdump, ActionReport>>, "f2", "Binary Data") }

NextRun ==
  \/ \E d \in Burst : QueueUpTo(d, MaxBurst)
  \/ RunPop
  \/ RunAcquire
  \/ RunStop
  \/ Cancel
  \/ \E j \in DOMAIN jobs : HandleActions(j)
  \/ \E d \in HookBurst : hookHandleActions(d)
  \/ hookSwitch
  \/ hookKill
  \/ \E j \in DOMAIN jobs : Routine(j)

\* the Go scheduler lets the dispatcher and every worker goroutine run
SpecRun ==
  /\ Init
  /\ [][NextRun]_vars
  /\ WF_vars(RunPop)
  /\ WF_vars(RunAcquire)
  /\ WF_vars(\E j \in DOMAIN jobs : HandleActions(j))

\* the tracking hooks alone: creation events in every order the OS can
\* produce, processes exiting, and their termination events
NextTrack ==
  \/ \E c \in TrackCreations : hookTrack(c)
  \/ \E pid \in {"p1"} \cup {c.pid : c \in TrackCreations} : ProcessExit(pid)
  \/ \E g \in Guids \cup {c.guid : c \in TrackCreations} : hookProcTerm(g)

SpecTrack == Init /\ [][NextTrack]_vars


\* the enrichment hooks on the events of g1, of the agent and of the
\* untracked gU, while g4 and the logon screen start and g4 exits; the
\* hooks do not read the configuration
EnrichCreations == {c \in TrackCreations : c.guid \in {"g4", "gL"}}

InitEnrich == Init /\ config.MaxDumps = MaxDumpsCfg /\ ~config.DumpUntracked

NextEnrich ==
  \/ \E c \in EnrichCreations : hookTrack(c)
  \/ ProcessExit("p4")
  \/ hookProcTerm("g4")
  \/ \E e \in ImageLoads : hookImageLoad(e)
  \/ \E e \in FileEvents : hookStats(e)
  \/ \E e \in ScoredEvents : hookUpdateGeneScore(e)
  \/ \E e \in AnyEvents : hookEnrichAnySysmon(e)

SpecEnrich == InitEnrich /\ [][NextEnrich]_vars

\* the manager's rule DELETE, rule POST with update and rules save
NextRules ==
  \/ \E op \in {"DELETE", "POST", "SAVE"}, name \in EngineRules :
       admCreate(op, name)
  \/ admRemove
  \/ admWrite
  \/ admRename

SpecRules == Init /\ [][NextRules]_vars

\* shutdown: producers that queue a few detections and keep handing files
\* to compress, the dispatcher with its workers, the compression routine,
\* and the shutdown signal
LateBurst == { Det("g1", <<ActionKill>>, "none", "none") }
DumpPaths == { <<"bin", "f1">>, <<"dmp", "g1">> }

Dispatcher == RunPop \/ RunAcquire \/ RunStop
Compressor ==
  \/ compressionLoop
  \/ compressionPop
  \/ compressionGzip
  \/ compressionSleep
  \/ compressionStop

NextStop ==
  \/ \E d \in LateBurst : QueueUpTo(d, MaxLate)
  \/ \E path \in DumpPaths : Compress(path)
  \/ Dispatcher
  \/ Compressor
  \/ Cancel
  \/ \E j \in DOMAIN jobs : HandleActions(j)

\* the Go scheduler lets the dispatcher, the compression routine and every
\* worker goroutine run
SpecStop ==
  /\ Init
  /\ [][NextStop]_vars
  /\ WF_vars(Dispatcher)
  /\ WF_vars(Compressor)
  /\ WF_vars(\E j \in DOMAIN jobs : HandleActions(j))

\* registry dumps: detections on registry events with binary and textual
\* Details, on a file event, and for an untracked process, on both paths
RegDetections ==
  { Det("g1", <<ActionRegdump>>, "none", "Binary Data"),
    Det("g1", <<ActionRegdump>>, "none", "DWORD"),
    Det("g1", <<ActionRegdump, ActionFiledump>>, "f2", "none"),
    Det("gU", <<ActionRegdump, ActionReport>>, "none", "Binary Data") }

NextReg ==
  \/ \E d \in RegDetections : Queue(d)
  \/ RunPop
  \/ RunAcquire
  \/ \E j \in DOMAIN jobs : HandleActions(j)
  \/ \E d \in RegDetections : hookHandleActions(d)
  \/ hookSwitch
  \/ hookKill
  \/ \E j \in DOMAIN jobs : Routine(j)

SpecReg == Init /\ [][NextReg]_vars

\* compression: memory dumps and other producers hand paths to compress
\* with Dump.Compression on and off, the compression routine drains the
\* queue, and the shutdown signal
MemDetections == { Det("g1", <<ActionMemdump>>, "none", "none") }

InitCompress ==
  /\ config \in {c \in AllConfigs : c.MaxDumps = MaxDumpsCfg /\ ~c.DumpUntracked}
  /\ Started

NextCompress ==
  \/ \E d \in MemDetections : Queue(d)
  \/ RunPop
  \/ RunAcquire
  \/ \E j \in DOMAIN jobs : HandleActions(j)
  \/ \E path \in DumpPaths : Compress(path)
  \/ compressionLoop
  \/ compressionPop
  \/ compressionGzip
  \/ compressionSleep
  \/ compressionStop
  \/ Cancel

SpecCompress == InitCompress /\ [][NextCompress]_vars

\* file dumps: detections on file events whose target is a regular file, a
\* missing file, a directory and a named pipe
FileDetections ==
  { Det("g1", <<ActionFiledump>>, t, "none") : t \in {"f2", "missing", "dir", "pipe"} }

NextFile ==
  \/ \E d \in FileDetections : Queue(d)
  \/ RunPop
  \/ RunAcquire
  \/ \E j \in DOMAIN jobs : HandleActions(j)

SpecFile == Init /\ [][NextFile]_vars

\* command lines: a process is created with an argument that is a file as
\* given, a file relative to its working directory, or no file, and a
\* detection asks for its files
CmdLines == {"prog f2", "prog rel", "prog nofile"}
CmdCreations ==
  { Creation("g2", "p2", "f2", cmd, "g1", "p1", "f1") : cmd \in CmdLines }
CmdDetections == { Det("g2", <<ActionFiledump>>, "none", "none") }

NextCmd ==
  \/ \E c \in CmdCreations : hookTrack(c)
  \/ \E d \in CmdDetections : Queue(d)
  \/ RunPop
  \/ RunAcquire
  \/ \E j \in DOMAIN jobs : HandleActions(j)

SpecCmd == Init /\ [][NextCmd]_vars

\* self-identification: the events of hookSelfGUID, and detections for the
\* agent and for another process
SelfDetections ==
  { Det("gS", <<ActionKill>>, "none", "none"),
    Det("g1", <<ActionKill>>, "none", "none") }

NextSelf ==
  \/ \E e \in SelfEvents : hookSelfGUID(e)
  \/ \E d \in SelfDetections : Queue(d)
  \/ RunPop
  \/ RunAcquire
  \/ \E j \in DOMAIN jobs : HandleActions(j)

\* the agent starts without knowing its GUID
InitSelf == Init /\ guid = NoGuid

SpecSelf == InitSelf /\ [][NextSelf]_vars

\* PID reuse: the tracked process g1 exits, no termination event is handled,
\* and the OS gives its PID p1 to the new process g5; detections for g1 ask
\* to dump and kill it, on both paths
ReuseCreations == { Creation("g5", "p1", "f2", "c5", "gU", "pU", "fU") }
ReuseDetections ==
  { Det("g1", <<ActionMemdump, ActionKill>>, "none", "none") }

NextReuse ==
  \/ ProcessExit("p1")
  \/ \E c \in ReuseCreations : hookTrack(c)
  \/ \E d \in ReuseDetections : Queue(d)
  \/ RunPop
  \/ RunAcquire
  \/ \E j \in DOMAIN jobs : HandleActions(j)
  \/ \E d \in ReuseDetections : hookHandleActions(d)
  \/ hookSwitch
  \/ hookKill
  \/ \E j \in DOMAIN jobs : killWaitSleep(j) \/ killWaitTerminate(j) \/ Routine(j)

SpecReuse == Init /\ [][NextReuse]_vars

\* a process tree seven deep: a2..a5 descend from the tracked g1, a5 has the
\* children b6 and c6 with different images, and each of them has a child
AliasCreations ==
  { Creation("a2", "q2", "f2", "ca2", "g1", "p1", "f1"),
    Creation("a3", "q3", "f3", "ca3", "a2", "q2", "f2"),
    Creation("a4", "q4", "f4", "ca4", "a3", "q3", "f3"),
    Creation("a5", "q5", "f5", "ca5", "a4", "q4", "f4"),
    Creation("b6", "qb6", "fB", "cb6", "a5", "q5", "f5"),
    Creation("c6", "qc6", "fC", "cc6", "a5", "q5", "f5"),
    Creation("b7", "qb7", "f7", "cb7", "b6", "qb6", "fB"),
    Creation("c7", "qc7", "f7", "cc7", "c6", "qc6", "fC") }

NextAlias ==
  \/ \E c \in AliasCreations : hookTrack(c)
  \/ \E pid \in {"qb7", "qc7"} : ProcessExit(pid)
  \/ \E g \in {"b7", "c7"} : hookProcTerm(g)

SpecAlias == Init /\ [][NextAlias]_vars

(* ------------------------------- claims ------------------------------- *)

Called(op, k) == \E c \in calls : c[1] = op /\ c[3] = k

ActionsOf(k) == Range(events[k].det.actions)

GuidOf(k) == srcGUIDFromEvent(events[k].det)

\* positions of HandleActions after the kill step
AfterKill == {"report", "filedump", "dumpFile", "dumpFile_test", "dumpFile_copy", "regdump", "event", "done"}

InSnapshot(j) == jobs[j].pc \in {"memdump_snapshot", "dumpPid_snapshot"}

\* C1: in HandleActions, for a detection with kill, the snapshot call of the
\* detection is made only once its suspend call has been made, and its
\* terminate call only once its suspend call has been made and the memdump
\* step has returned.
C1_SuspendMemdumpKill ==
  \A j \in DOMAIN jobs :
    (jobs[j].kind = "actions" /\ ActionKill \in ActionsOf(jobs[j].k)) =>
      /\ Called("snapshot", jobs[j].k) => Called("suspend", jobs[j].k)
      /\ Called("terminate", jobs[j].k) =>
           Called("suspend", jobs[j].k) /\ jobs[j].pc \in AfterKill

C1_Witness ==
  \E j \in DOMAIN jobs :
    /\ jobs[j].kind = "actions"
    /\ Called("suspend", jobs[j].k)
    /\ <<"dmp", GuidOf(jobs[j].k)>> \in jobs[j].wrote
    /\ Called("terminate", jobs[j].k)

\* C2: in the hook path, for a detection with memdump and kill, the
\* terminate call is made only after the suspend call, by the waiter, and
\* only once the GUID has been put in the memory-dumped set or the waiter
\* has polled PollLimit times.
C2_HookKillWaits ==
  \A k \in DOMAIN events :
    (/\ events[k].via = "hook"
     /\ {ActionMemdump, ActionKill} \subseteq ActionsOf(k)
     /\ Called("terminate", k)) =>
      /\ Called("suspend", k)
      /\ \E j \in DOMAIN jobs :
           /\ jobs[j].kind = "killWait" /\ jobs[j].k = k /\ jobs[j].pc = "done"
           /\ jobs[j].i = PollLimit \/ GuidOf(k) \in everDumped

C2_Witness ==
  \E j \in DOMAIN jobs :
    /\ jobs[j].kind = "killWait" /\ jobs[j].pc = "done"
    /\ jobs[j].i < PollLimit
    /\ GuidOf(jobs[j].k) \in everDumped
    /\ Called("terminate", jobs[j].k)

\* C3: for a detection with kill on a tracked process that is not the
\* agent, a blacklist or snapshot call of the detection is made only once
\* its suspend call has been made.
C3_SuspendBeforeAnyAction ==
  \A k \in DOMAIN events :
    (/\ ActionKill \in ActionsOf(k)
     /\ InitTracks[GuidOf(k)].PID \notin {"none", SelfPid}
     /\ Called("blacklist", k) \/ Called("snapshot", k)) =>
      Called("suspend", k)

\* C3, the part on the memory snapshot alone: no snapshot call of a
\* detection with kill before its suspend call.
C3_SuspendBeforeSnapshot ==
  \A k \in DOMAIN events :
    (ActionKill \in ActionsOf(k) /\ Called("snapshot", k)) => Called("suspend", k)

\* the detection has been handled to the end: the worker, or the hook and
\* the waiter it started, have returned
Handled(k) ==
  IF events[k].via = "queue"
    THEN \E j \in DOMAIN jobs : jobs[j].k = k /\ jobs[j].pc = "done"
    ELSE /\ hook.k # k
         /\ \A j \in DOMAIN jobs :
              (jobs[j].k = k /\ jobs[j].kind = "killWait") => jobs[j].pc = "done"

\* C4: a detection with kill for a tracked process that is not the agent,
\* once handled to the end, has made its terminate call.
C4_KillAlwaysTerminates ==
  \A k \in DOMAIN events :
    (/\ ActionKill \in ActionsOf(k)
     /\ ~IsZero(GetByGuid(GuidOf(k)))
     /\ GetByGuid(GuidOf(k)).PID # SelfPid
     /\ Handled(k)) =>
      Called("terminate", k)

\* C5: a detection whose tracked target is the agent's own PID makes no
\* suspend, terminate, snapshot or blacklist call and writes no .dmp.
C5_SelfProtection ==
  \A k \in DOMAIN events :
    InitTracks[GuidOf(k)].PID = SelfPid =>
      /\ \A c \in calls : c[3] # k
      /\ \A j \in DOMAIN jobs :
           jobs[j].k = k => <<"dmp", GuidOf(k)>> \notin jobs[j].wrote

C5_Witness ==
  /\ guid = NoGuid
  /\ \E j \in DOMAIN jobs :
       /\ jobs[j].kind = "actions" /\ jobs[j].pc = "done" /\ jobs[j].ok = "yes"
       /\ InitTracks[GuidOf(jobs[j].k)].PID = SelfPid
       /\ {ActionKill, ActionMemdump, ActionBlacklist} \subseteq ActionsOf(jobs[j].k)

C7_MemdumpAtMostOnce ==
  \A g \in Guids :
    /\ Cardinality({j \in DOMAIN jobs : <<"dmp", g>> \in jobs[j].wrote}) <= 1
    /\ ((\E j \in DOMAIN jobs : <<"dmp", g>> \in jobs[j].wrote) /\ ~IsZero(GetByGuid(g)))
         => g \in memdumped

\* C8: no two goroutines are inside the snapshot step for the same GUID.
C8_OneSnapshotPerGuid ==
  \A j1, j2 \in DOMAIN jobs :
    (j1 # j2 /\ GuidOf(jobs[j1].k) = GuidOf(jobs[j2].k)) =>
      ~(InSnapshot(j1) /\ InSnapshot(j2))

\* C9: the body of a content hash is copied at most once over the run, and
\* every copied body has its .sha256 sidecar.
C9_BodyAtMostOncePerHash ==
  /\ \A h \in {Sha256(f) : f \in RegularFiles} :
       Cardinality({jf \in (DOMAIN jobs) \X RegularFiles :
                      <<"bin", jf[2]>> \in jobs[jf[1]].wrote /\ Sha256(jf[2]) = h}) <= 1
  /\ \A j \in DOMAIN jobs : \A f \in RegularFiles :
       <<"bin", f>> \in jobs[j].wrote => <<"sha256", f>> \in jobs[j].wrote

ActionWorkers == {j \in DOMAIN jobs : jobs[j].kind = "actions" /\ jobs[j].pc # "done"}

HookWorkers ==
  {j \in DOMAIN jobs :
     /\ jobs[j].kind \in {"dumpProcessRtn", "dumpRegistryRtn", "dumpFilesRtn", "dumpReportRtn"}
     /\ jobs[j].pc \notin {"acquire", "done"}}

IsActionJob(job) == job.kind = "actions"

\* the events handed to HandleActions, in the order the workers were started
Handed ==
  LET w == SelectSeq(jobs, IsActionJob) IN [i \in 1..Len(w) |-> w[i].k]

WasPushed(k) == events[k].pushed

\* the events Queue accepted, in the order it was called
AcceptedSeq == SelectSeq([k \in 1..Len(events) |-> k], WasPushed)

\* the event the dispatcher has popped and holds while it waits for a slot
InHand == IF disp.pc = "acquire" THEN <<disp.evt>> ELSE <<>>

QueueOrder == Handed \o InHand \o queue = AcceptedSeq

\* C12: the events handed to HandleActions, then the one the dispatcher
\* holds, then those still queued are at every moment exactly the events
\* Queue accepted, in order (none discarded, none duplicated); and while no
\* shutdown is signalled every accepted event is eventually handed to
\* HandleActions.
C12_QueueFifo ==
  /\ []QueueOrder
  /\ \A k \in 1..MaxBurst :
       (k \in DOMAIN events /\ events[k].pushed) ~> (ctxErr \/ k \in Range(Handed))

C12_Witness ==
  /\ ~ctxErr
  /\ Len(Handed) = MaxBurst
  /\ \E j \in DOMAIN jobs : jobs[j].k = MaxBurst /\ jobs[j].pc = "done"

\* C13: no event passed to Queue after the shutdown signal was raised is
\* handed to a worker.
C13_NoWorkAfterShutdown ==
  \A j \in DOMAIN jobs :
    jobs[j].kind = "actions" => ~events[jobs[j].k].late

\* the detection-path entry point has returned for the detection: Queue
\* returns as it is called, hookHandleActions once its kill section is over
Returned(k) == events[k].via = "queue" \/ hook.k # k \/ hook.pc = "idle"

\* the detection's target has a track and is not the agent
Targetable(k) ==
  /\ ~IsZero(GetByGuid(GuidOf(k)))
  /\ GetByGuid(GuidOf(k)).PID # SelfPid

\* the kill, suspend and blacklist calls the detection asks for, the kill
\* left out when it waits for the memory dump of the same detection
SyncCalls(k) ==
  (IF ActionBlacklist \in ActionsOf(k) THEN {"blacklist"} ELSE {})
    \cup (IF ActionKill \in ActionsOf(k) THEN {"suspend"} ELSE {})
    \cup (IF ActionKill \in ActionsOf(k) /\ ActionMemdump \notin ActionsOf(k)
            THEN {"terminate"} ELSE {})

\* C14: once the detection-path entry point has returned for a detection on
\* a tracked process that is not the agent, every blacklist and suspend it
\* asks for has been made, and its kill unless deferred behind its memdump.
C14_SynchronousOnDetectionPath ==
  \A k \in DOMAIN events :
    (Returned(k) /\ Targetable(k)) => \A op \in SyncCalls(k) : Called(op, k)

\* C14 on the hook path alone
C14_HookPathSynchronous ==
  \A k \in DOMAIN events :
    (events[k].via = "hook" /\ Returned(k) /\ Targetable(k)) =>
      \A op \in SyncCalls(k) : Called(op, k)

\* the event.json of the detection a goroutine works on exists, or a routine
\* is inside dumpEventAndCompress writing it
EventPersisted(j) ==
  \/ EventPath(Ev(j)) \in dumping
  \/ \E i \in DOMAIN jobs : Ev(i) = Ev(j) /\ <<"event.json", "">> \in jobs[i].wrote

\* C15: a worker or dump routine that passed the budget check and has ended
\* leaves the event.json of its event written.
C15_EventAlwaysPersisted ==
  \A j \in DOMAIN jobs :
    (/\ jobs[j].kind \in {"actions", "dumpProcessRtn", "dumpRegistryRtn",
                          "dumpFilesRtn", "dumpReportRtn"}
     /\ jobs[j].ok = "yes"
     /\ ~IsHIDSEvent(Ev(j))
     /\ jobs[j].pc = "done") => EventPersisted(j)

\* C15 for every goroutine but the registry dump routine of the hook path
C15_EventPersistedButRegistry ==
  \A j \in DOMAIN jobs :
    (/\ jobs[j].kind \in {"actions", "dumpProcessRtn", "dumpFilesRtn", "dumpReportRtn"}
     /\ jobs[j].ok = "yes"
     /\ ~IsHIDSEvent(Ev(j))
     /\ jobs[j].pc = "done") => EventPersisted(j)

WroteEvent(j) == <<"event.json", "">> \in jobs[j].wrote

\* C16: the event.json of one event is written by at most one goroutine.
C16_EventWrittenOnce ==
  \A i, j \in DOMAIN jobs :
    (i # j /\ Ev(i) = Ev(j)) => ~(WroteEvent(i) /\ WroteEvent(j))

\* C16 for the dump routines of one hook detection alone
C16_HookEventWrittenOnce ==
  \A i, j \in DOMAIN jobs :
    (i # j /\ jobs[i].k = jobs[j].k /\ events[jobs[i].k].via = "hook") =>
      ~(WroteEvent(i) /\ WroteEvent(j))

\* C17 as amended: filedumped never loses an element, and memdumped loses a
\* GUID only in the step of hookProcTerm that handles the termination event
\* of that GUID (the step that retires its track).
C17_AddOnlyButTermination ==
  [][/\ filedumped \subseteq filedumped'
     /\ (memdumped \ memdumped') \subseteq
          {g \in Guids : tracks[g] # ZeroTrack /\ tracks'[g] = ZeroTrack}]_vars

C17_Witness ==
  \E g \in Guids :
    g \in everDumped /\ g \notin memdumped /\ IsZero(GetByGuid(g)) /\ filedumped # {}

\* C17 as claimed: filedumped and memdumped never lose an element.
C17_AddOnly ==
  [][filedumped \subseteq filedumped' /\ memdumped \subseteq memdumped']_vars

\* goroutines between dumping.Add and the deferred dumping.Del, for a GUID
\* and for an event.json path
InsideMemdump(g) ==
  {j \in DOMAIN jobs :
     /\ GuidOf(jobs[j].k) = g
     /\ jobs[j].pc \in {"memdump_snapshot", "memdump_defer",
                        "dumpPid_snapshot", "dumpPid_defer"}}

InsideEventDump(e) ==
  {j \in DOMAIN jobs : Ev(j) = e /\ jobs[j].pc = "dumpEvent_write"}

NoWorkerRunning == \A j \in DOMAIN jobs : jobs[j].pc = "done"

\* C18: a GUID or an event.json path is in the in-flight set exactly while
\* some goroutine is inside the corresponding dump step, and with no
\* goroutine running the in-flight set is empty.
C18_InFlightScoped ==
  /\ \A g \in Guids : <<"guid", g>> \in dumping <=> InsideMemdump(g) # {}
  /\ \A k \in DOMAIN events :
       EventPath(events[k].det) \in dumping <=> InsideEventDump(events[k].det) # {}
  /\ NoWorkerRunning => dumping = {}

\* C18, the release half: an element of the in-flight set has a goroutine
\* inside its dump step, and with no goroutine running the set is empty.
C18_InFlightReleased ==
  /\ \A g \in Guids : <<"guid", g>> \in dumping => InsideMemdump(g) # {}
  /\ \A k \in DOMAIN events :
       EventPath(events[k].det) \in dumping => InsideEventDump(events[k].det) # {}
  /\ NoWorkerRunning => dumping = {}

\* the termination event of the GUID has been processed by hookProcTerm
TerminationProcessed(g) == InitTracks[g] # ZeroTrack /\ IsZero(GetByGuid(g))

\* C19: once the termination event of a GUID has been processed, the GUID
\* is neither in the memory-dumped set nor in the in-flight set.
C19_TerminationCleansUp ==
  \A g \in Guids :
    TerminationProcessed(g) => (g \notin memdumped /\ <<"guid", g>> \notin dumping)

\* C19 for the memory-dumped set alone
C19_NoStaleMemdumped ==
  \A g \in Guids : TerminationProcessed(g) => g \notin memdumped

\* --- C20 ---
CreatedGuids == {s.guid : s \in created}
CreationOf(g) == CHOOSE c \in TrackCreations : c.guid = g

\* the depth of a process below gU, the ancestor the tracker never saw;
\* g1 and gS are children of gU
RECURSIVE Depth(_)
Depth(g) ==
  IF g = "gU" THEN 0
  ELSE IF \E c \in TrackCreations : c.guid = g THEN 1 + Depth(CreationOf(g).pguid)
  ELSE 1

\* the creation event of g, and of every ancestor of g started since, was
\* processed while tracking was enabled
RECURSIVE TrackedUp(_)
TrackedUp(g) ==
  \/ g \notin {c.guid : c \in TrackCreations}
  \/ /\ [guid |-> g, tracked |-> TRUE] \in created
     /\ TrackedUp(CreationOf(g).pguid)

OneTrackAtDepth(g) ==
  /\ ~IsZero(GetByGuid(g))
  /\ GetByGuid(g).PID = CreationOf(g).pid
  /\ Len(GetByGuid(g).Ancestors) = Depth(g)

C21_LineageInherited ==
  [][\A c \in TrackCreations :
       (hookTrack(c) /\ TrackingEnabled) =>
         LET parent == GetByGuid(c.pguid)
             track == tracks'[c.guid]
         IN  /\ IF ~IsZero(parent)
                  THEN /\ track.Ancestors = parent.Ancestors \o <<parent.Image>>
                       /\ track.ParentUser = parent.User
                       /\ track.ParentIntegrityLevel = parent.IntegrityLevel
                       /\ track.ParentServices = parent.Services
                       /\ track.ParentCurrentDirectory = parent.CurrentDirectory
                  ELSE track.Ancestors = <<c.pimage>>
             /\ evt'.out.Ancestors = Join(track.Ancestors, "|")
             /\ (c.guid = "g3" /\ ~IsZero(parent)) =>
                  evt'.out.Ancestors = "fU|f1|f2"
             /\ (c.guid = "g4") => evt'.out.Ancestors = "fU"]_vars

\* the creation event of g3 has just been handled: g3 inherited from the
\* tracked g2, and g4 was tracked below the untracked gU
C21_Witness ==
  /\ evt = Enriched("hookTrack", "g3",
                    [Ancestors |-> "fU|f1|f2", ParentUser |-> "up2",
                     ParentIntegrityLevel |-> "ilp2", ParentServices |-> "?"])
  /\ GetByGuid("g3").ParentCurrentDirectory = "dp2"
  /\ GetByGuid("g4").Ancestors = <<"fU">>

\* --- C22 ---
\* C22: after hookEnrichAnySysmon has handled an event that carries a
\* process GUID, the event has every one of the fields command line, user,
\* integrity level, working directory, image hashes, signing state and score,
\* whether or not the GUID has a track.
C22_BackfillTotal ==
  evt.hook = "hookEnrichAnySysmon" =>
    \A f \in EnrichFields : evt.out[f] # Absent

\* with a track for the GUID every field is there, and the standard fields
\* the event lacked hold the tracked value or "?"
C22_BackfillTotalWhenTracked ==
  [][\A e \in AnyEvents :
       (hookEnrichAnySysmon(e) /\ ~IsZero(GetByGuid(e.guid))) =>
         /\ \A f \in EnrichFields : evt'.out[f] # Absent
         /\ \A f \in StdFields \ e.has :
              evt'.out[f] \in {TrackValue(GetByGuid(e.guid), f), "?"} \ {""}]_vars

\* --- C23 ---
\* C23: after hookStats has handled a file-create or file-delete event the
\* fields file count, count by extension, extension and frequency are set on
\* the event, whether or not a track is found and whether or not a
\* termination event has been seen; and after hookTrack has handled a
\* process-creation event the four lineage fields are set.
C23_EnrichmentTotal ==
  /\ evt.hook = "hookStats" => \A f \in StatFields : evt.out[f] # Absent
  /\ evt.hook = "hookTrack" =>
       \A f \in DOMAIN LineageDefaults : evt.out[f] \notin {Absent, ""}

\* the hookTrack half alone
C23_LineageTotal ==
  evt.hook = "hookTrack" =>
    \A f \in DOMAIN LineageDefaults : evt.out[f] \notin {Absent, ""}

\* hookStats sets the four fields when a termination event has been seen and
\* the process is tracked
C23_StatsTotalWhenTracked ==
  [][\A e \in FileEvents :
       (hookStats(e) /\ flagProcTermEn /\ ~IsZero(GetByGuid(e.guid))) =>
         \A f \in StatFields : evt'.out[f] # Absent]_vars

\* --- C24 ---
Signing(track) == <<track.Signed, track.Signature, track.SignatureStatus>>

\* C24: an image-load event for a module other than the tracked process's
\* own image leaves Signed, Signature and SignatureStatus of the track
\* unchanged.
C24_SigningOnlyFromOwnImage ==
  [][\A e \in ImageLoads :
       (/\ hookImageLoad(e)
        /\ ~IsZero(GetByGuid(e.guid))
        /\ e.loaded # GetByGuid(e.guid).Image) =>
         Signing(tracks'[e.guid]) = Signing(tracks[e.guid])]_vars

\* the signing fields of a track change in no other step than an image-load
\* event of the process
C24_SigningOnlyFromImageLoad ==
  [][\A g \in DOMAIN tracks :
       (g \in DOMAIN tracks' /\ ~IsZero(tracks[g]) /\ ~IsZero(tracks'[g])
        /\ Signing(tracks'[g]) # Signing(tracks[g])) =>
         \E e \in ImageLoads : e.guid = g /\ hookImageLoad(e)]_vars

\* --- C25 ---
TerminatorCalls(cs) == {x \in cs : x[1] = "terminate" /\ x[3] = 0}
TerminateCalls(cs) == {x \in cs : x[1] = "terminate"}

C26_FailureLeavesRuleFiles ==
  adm.result = "failed" => RuleFilesOf(rulesDir) = RuleFilesOf(adm.before)

\* a failure to create the temporary file, or to decode the body, leaves them
C26_FailureBeforeRemoveLeavesRuleFiles ==
  [][(adm.pc = "idle" /\ adm'.result = "failed") =>
       RuleFilesOf(rulesDir') = RuleFilesOf(rulesDir)]_vars

\* --- C27 ---
WroteDmp(j) == \E w \in jobs[j].wrote : w[1] = "dmp"

\* a worker has ended HandleActions for a detection of a tracked process,
\* within budget, that asks for filedump and report and nothing else
FiledumpReportDone(j) ==
  /\ IsWorker(j, "done")
  /\ jobs[j].ok = "yes"
  /\ ~IsHIDSEvent(Ev(j))
  /\ InitTracks[GuidOf(jobs[j].k)] # ZeroTrack
  /\ ActionsOf(jobs[j].k) = {ActionFiledump, ActionReport}

C28_ScoreIsMaximum ==
  [][/\ \A g \in DOMAIN tracks :
          (g \in DOMAIN tracks' /\ ~IsZero(tracks'[g])) =>
            tracks'[g].Score >= tracks[g].Score
     /\ \A e \in ScoredEvents :
          hookUpdateGeneScore(e) =>
            /\ \A g \in DOMAIN tracks \ {e.guid} : tracks'[g] = tracks[g]
            /\ IF ~IsZero(GetByGuid(e.guid)) /\ e.sig
                  /\ ~(guid # NoGuid /\ e.guid = guid)
                 THEN /\ tracks'[e.guid].Score >= e.crit
                      /\ tracks'[e.guid].Score \in {tracks[e.guid].Score, e.crit}
                 ELSE tracks' = tracks]_vars

\* g1 was scored 7 and then 3 and keeps 7; the agent's own track has seen
\* its events and keeps 0
C28_Witness ==
  /\ evt = Enriched("hookUpdateGeneScore", "g1",
                    [Criticality |-> 3, Signature |-> TRUE])
  /\ GetByGuid("g1").Score = 7
  /\ guid = "gS" /\ GetByGuid("gS").Score = 0

\* --- C29 ---
\* the budget check of goroutine j has answered
Checked(j) == jobs[j].ok # "?"

\* C29: every budget check made for a tracked GUID whose counter is below
\* MaxDumps is answered yes and counted at once, whatever the actions then
\* do: the counter of a tracked GUID is the number of checks answered yes for
\* it, and a check made once MaxDumps have been counted is answered no.
C29_BudgetConsumedAtCheck ==
  /\ \A g \in Guids :
       ~IsZero(GetByGuid(g)) =>
         /\ GetByGuid(g).DumpCount = Accepted(g)
         /\ GetByGuid(g).DumpCount <= config.MaxDumps
  /\ \A j \in DOMAIN jobs :
       (Checked(j) /\ jobs[j].had) =>
         (jobs[j].ok = "yes" <=> jobs[j].prior < config.MaxDumps)

\* MaxDumps = 2 detections asking only to kill g1 have been handled to the
\* end by HandleActions, they left nothing but their event.json, one while
\* the process was already gone, and the budget of g1 is used up
C29_Witness ==
  /\ config.MaxDumps = 2
  /\ GetByGuid("g1").DumpCount = 2
  /\ ~IsPIDRunning("p1")
  /\ Len(jobs) = 2
  /\ \A j \in DOMAIN jobs :
       /\ IsWorker(j, "done")
       /\ GuidOf(jobs[j].k) = "g1"
       /\ ActionsOf(jobs[j].k) = {ActionKill}
       /\ jobs[j].wrote = {<<"event.json", "">>}

\* --- C30 ---
\* C30: once the shutdown signal is raised, the dispatcher loop of Run and
\* the loop of compressionRoutine both exit eventually, also when producers
\* keep calling Queue and compress.
C30_LoopsExit ==
  ctxErr ~> (disp.pc = "stopped" /\ comp.pc = "stopped")

\* the dispatcher exits once the producers have stopped calling Queue
C30_DispatcherExitsWhenQueueStops ==
  ctxErr ~> (disp.pc = "stopped")

\* --- C31 ---
\* the step is taken by the worker j of HandleActions
StepOf(j) == jobs[j].kind = "actions" /\ jobs'[j] # jobs[j]

\* the snapshot call of worker j returns without an error
SnapshotSucceeds(j) ==
  /\ jobs[j].pc = "memdump_snapshot"
  /\ jobs'[j].err = "none"

\* C31: a worker of HandleActions adds its GUID to the memory-dumped set and
\* pushes the dump path on the compression queue only in the step in which
\* its snapshot call succeeded; when the snapshot fails, or memdump is skipped
\* (untracked, not running, the agent itself, already dumped, being dumped),
\* memdump returns an error, marks nothing, queues nothing and is not entered
\* again for that detection.
C31_MarkedOnlyOnSuccess ==
  [][\A j \in DOMAIN jobs : StepOf(j) =>
       LET g == srcGUIDFromEvent(Ev(j)) IN
       /\ (memdumped' # memdumped \/ compressionQueue' # compressionQueue)
            => SnapshotSucceeds(j)
       /\ SnapshotSucceeds(j)
            => /\ g \in memdumped'
               /\ compressionQueue' = Append(compressionQueue, <<"dmp", g>>)
       /\ (jobs[j].pc \in {"memdump", "memdump_snapshot"}
             /\ ~SnapshotSucceeds(j) /\ jobs'[j].pc # "memdump_add")
            => /\ jobs'[j].err # "none"
               /\ memdumped' = memdumped
               /\ compressionQueue' = compressionQueue
       /\ (jobs[j].err # "none"
             \/ jobs[j].pc \in {"memdump_add", "memdump_snapshot", "memdump_defer"})
            => jobs'[j].pc \notin {"memdump", "memdump_add"}
  ]_vars

\* a snapshot failed and a memdump was skipped, and one snapshot succeeded
C31_Witness ==
  \E i, j \in DOMAIN jobs :
    /\ jobs[i].kind = "actions" /\ jobs[i].err = "failed to dump process"
    /\ jobs[i].pc \notin {"memdump_snapshot", "memdump_defer"}
    /\ <<"dmp", srcGUIDFromEvent(Ev(i))>> \notin jobs[i].wrote
    /\ jobs[j].kind = "actions" /\ jobs[j].err = "none"
    /\ <<"dmp", srcGUIDFromEvent(Ev(j))>> \in jobs[j].wrote
    /\ compressionQueue # <<>>

\* --- C32 ---
\* the reg.txt artifacts a goroutine wrote
RegArtifacts(j) == {w \in jobs[j].wrote : w[1] = "reg.txt"}

\* the goroutine is to dump the registry value of its event
DumpsRegistry(j) ==
  \/ jobs[j].kind = "dumpRegistryRtn"
  \/ jobs[j].kind = "actions" /\ ActionRegdump \in Range(Ev(j).actions)

\* C32: reg.txt is written only for a registry-value-set event whose Details
\* is exactly "Binary Data", never for another event or value kind; a
\* registry dump that passed the budget check writes it, with the value when
\* the live query succeeded and with an error string when the query failed.
C32_RegdumpBinaryDataOnly ==
  \A j \in DOMAIN jobs :
    /\ RegArtifacts(j) # {} =>
         DumpsRegistry(j) /\ Ev(j).details = "Binary Data" /\ jobs[j].ok = "yes"
    /\ jobs[j].query = "failed" => RegArtifacts(j) = {<<"reg.txt", "error dumping">>}
    /\ jobs[j].query = "ok" => RegArtifacts(j) = {<<"reg.txt", "value">>}
    /\ (DumpsRegistry(j) /\ jobs[j].pc = "done" /\ jobs[j].ok = "yes"
          /\ Ev(j).details = "Binary Data")
         => RegArtifacts(j) # {}

\* a query failed and its error string was written, and a registry event with
\* a textual value passed the budget check and ended with no reg.txt
C32_Witness ==
  \E i, j \in DOMAIN jobs :
    /\ jobs[i].query = "failed" /\ <<"reg.txt", "error dumping">> \in jobs[i].wrote
    /\ DumpsRegistry(j) /\ Ev(j).details = "DWORD"
    /\ jobs[j].pc = "done" /\ jobs[j].ok = "yes" /\ RegArtifacts(j) = {}

\* --- C33 ---
\* a producer pushes a path at the tail of the compression queue
Pushes ==
  /\ \E path \in DumpPaths : compressionQueue' = Append(compressionQueue, path)
  /\ comp' = comp

\* the compression routine takes the head of the queue
Pops ==
  /\ comp.pc = "inner" /\ comp'.pc = "gzip"
  /\ comp'.path = Head(compressionQueue)
  /\ compressionQueue' = Tail(compressionQueue)

\* the path in the routine's hand and the queued paths, in order
ToCompress == (IF comp.pc = "gzip" THEN <<comp.path>> ELSE <<>>) \o compressionQueue

Skipped(f) == f \notin RegularFiles

\* C34: dumpFile on a source that is missing, not a regular file or a
\* named-pipe path returns no error and changes nothing (no destination
\* directory, no .sha256 sidecar, no body, the content-hash set as it was);
\* and when copying the body of a regular file fails, its hash is not added
\* to the content-hash set and no body is recorded.
C34_SkipChangesNothing ==
  [][\A j \in DOMAIN jobs : StepOf(j) =>
       /\ (jobs[j].pc = "dumpFile_test" /\ Skipped(jobs[j].cur))
            => /\ jobs'[j].ferr = "none"
               /\ jobs'[j].wrote = jobs[j].wrote
               /\ jobs'[j].dir = jobs[j].dir
               /\ filedumped' = filedumped
               /\ compressionQueue' = compressionQueue
               /\ jobs'[j].pc = "dumpFile"
       /\ (jobs[j].pc = "dumpFile_copy" /\ jobs'[j].ferr # "none")
            => /\ filedumped' = filedumped
               /\ jobs'[j].wrote = jobs[j].wrote
  ]_vars

\* a filedump has gone through a named pipe and its copy of a regular file has
\* failed: it holds the sidecar of the regular file, no body, and nothing of
\* the pipe
C34_Witness ==
  \E j \in DOMAIN jobs :
    /\ IsWorker(j, "done")
    /\ Ev(j).target = "pipe"
    /\ jobs[j].ferr = "copy failed"
    /\ jobs[j].wrote = {<<"sha256", "f1">>, <<"event.json", "">>}
    /\ filedumped = {}

\* --- C35 ---
\* an existing regular file that is not a pipe
IsRegular(path) == path \in RegularFiles

\* the arguments after the program name
Args(cmdLine) == Range(Tail(ArgvFromCommandLine(cmdLine)))

\* the paths a command line names, as given and joined to the directory
Named(cmdLine, cwd) ==
  Args(cmdLine) \cup {filepathJoin(cwd, arg) : arg \in Args(cmdLine)}

\* the candidate set has what the claim says of one command line
ListsFiles(S, cmdLine, cwd) ==
  /\ \A arg \in Args(cmdLine) :
       /\ IsRegular(arg) => arg \in S
       /\ IsRegular(filepathJoin(cwd, arg)) => filepathJoin(cwd, arg) \in S
  /\ \A path \in Named(cmdLine, cwd) \cap S : IsRegular(path)

\* C35: for every argument of a tracked process's command line and parent
\* command line, the file-dump candidate set has the argument as given when
\* it is an existing regular file, has the argument joined to the working
\* directory when the joined path is an existing regular file, and has no
\* command-line-derived path that is not an existing regular file.
C35_CommandLineFiles ==
  [][\A j \in DOMAIN jobs :
       (StepOf(j) /\ jobs[j].pc = "filedump"
          /\ ~IsZero(processTrackFromEvent(Ev(j))))
       => LET pt == processTrackFromEvent(Ev(j))
              S == jobs'[j].todo
          IN  /\ ListsFiles(S, pt.CommandLine, pt.CurrentDirectory)
              /\ ListsFiles(S, pt.ParentCommandLine, pt.ParentCurrentDirectory)
  ]_vars

\* the arguments that are files as given are candidates
C35_FilesAsGivenListed ==
  [][\A j \in DOMAIN jobs :
       (StepOf(j) /\ jobs[j].pc = "filedump"
          /\ ~IsZero(processTrackFromEvent(Ev(j))))
       => LET pt == processTrackFromEvent(Ev(j))
          IN  \A arg \in Args(pt.CommandLine) \cup Args(pt.ParentCommandLine) :
                IsRegular(arg) => arg \in jobs'[j].todo
  ]_vars

\* --- C36 ---
\* C36: the agent's GUID changes only while it is empty and only on a
\* process-creation event: to the event's parent GUID when its parent image
\* is the agent's executable, otherwise to the event's GUID when its image is
\* the agent's executable; once it is not empty no event changes it.
C36_SelfGuidSetOnce ==
  [][guid' # guid =>
       /\ guid = NoGuid
       /\ evt'.hook = "hookSelfGUID"
       /\ LET e == evt'.out
          IN  /\ e.id = "ProcessCreate"
              /\ IF e.pimage = selfPath /\ e.pguid # Absent
                   THEN guid' = e.pguid
                   ELSE e.image = selfPath /\ guid' = e.guid
  ]_vars

\* the GUID was learned from the parent fields of the creation of the agent's
\* own child, and the creation event of that child's image has been handled
\* since without changing it
C36_Witness ==
  /\ guid = "gS"
  /\ evt.hook = "hookSelfGUID"
  /\ evt.out = SelfEvent("ProcessCreate", selfPath, "gT", selfPath, Absent)
  /\ \E k \in DOMAIN events : IsHIDSEvent(events[k].det)

\* --- C37 ---
\* the process that holds a PID: the process created last with it, or the one
\* that had it when the agent started
OwnerOf(pid) ==
  IF \E c \in ReuseCreations : c.pid = pid /\ c.guid \in CreatedGuids
    THEN (CHOOSE c \in ReuseCreations : c.pid = pid /\ c.guid \in CreatedGuids).guid
    ELSE CHOOSE g \in Guids : InitTracks[g].PID = pid

\* the calls on a process made for a detection
ProcessCalls(cs) ==
  {c \in cs : c[1] \in {"suspend", "terminate", "snapshot"} /\ c[3] # 0}

\* C37: every suspend, terminate and snapshot call made for a detection on
\* GUID g hits the process whose GUID is g, also when g has exited and its PID
\* has been given to another process while the track of g is in the store.
C37_CallsHitTheirProcess ==
  [][\A c \in ProcessCalls(calls') \ ProcessCalls(calls) :
       OwnerOf(c[2]) = GuidOf(c[3])]_vars

\* as long as no PID is reused the calls hit the process of the detection
C37_CallsHitTheirProcessWithoutReuse ==
  [][\A c \in ProcessCalls(calls') \ ProcessCalls(calls) :
       CreatedGuids = {} => OwnerOf(c[2]) = GuidOf(c[3])]_vars

\* --- C38 ---
\* the budget check of worker j refused its event: the track had used up
\* MaxDumps, or there was no track and untracked processes are not dumped
Refused(j) ==
  /\ jobs[j].kind = "actions"
  /\ Checked(j)
  /\ \/ jobs[j].had /\ jobs[j].prior >= config.MaxDumps
     \/ ~jobs[j].had /\ ~config.DumpUntracked

\* C38: when the budget check of HandleActions refuses the event, nothing is
\* executed for that detection: no blacklist, suspend, memdump or kill call,
\* no report, file dump, registry dump or event dump; the worker is done.
C38_BudgetGatesEveryAction ==
  \A j \in DOMAIN jobs :
    Refused(j) =>
      /\ jobs[j].ok = "no"
      /\ jobs[j].pc = "done"
      /\ jobs[j].wrote = {}
      /\ ~jobs[j].dir
      /\ jobs[j].err = "none" /\ jobs[j].query = "none"
      /\ \A c \in calls : c[3] # jobs[j].k

\* a detection asking to blacklist, dump and kill the tracked g1 was refused
\* after the budget of g1 was used up, while the process was still running
C38_Witness ==
  \E j \in DOMAIN jobs :
    /\ Refused(j) /\ jobs[j].had /\ GuidOf(jobs[j].k) = "g1"
    /\ ActionsOf(jobs[j].k) = {ActionBlacklist, ActionMemdump, ActionKill}
    /\ IsPIDRunning("p1")
    /\ blacklist = {}

\* --- C39 ---
\* the tracks that are in the store before and after a step
Kept == {g \in DOMAIN tracks : ~IsZero(tracks[g]) /\ ~IsZero(tracks'[g])}

\* C39: creating a track never changes the ancestor chain of a track that is
\* already in the store, for siblings and their descendants at any depth.
C39_AncestorsFrame ==
  [][\A g \in Kept : tracks'[g].Ancestors = tracks[g].Ancestors]_vars

\* the chains of the tracks in the store keep their length, and keep their
\* content up to the sixth ancestor
C39_AncestorsFrameShallow ==
  [][\A g \in Kept :
       /\ Len(tracks'[g].Ancestors) = Len(tracks[g].Ancestors)
       /\ \A i \in 1..Len(tracks[g].Ancestors) :
            i <= 6 => tracks'[g].Ancestors[i] = tracks[g].Ancestors[i]]_vars

\* --- C40 ---
\* the GUIDs that have a track in a store
TrackedIn(store) == {g \in DOMAIN store : ~IsZero(store[g])}

\* the logon screen has started and no termination event has been seen
GateClosed == bootCompleted /\ ~flagProcTermEn

\* C40: a creation event adds a track only while boot is not completed or a
\* termination event has been seen; once LogonUI.exe's creation has been
\* processed and while no termination event has been seen, a creation event
\* leaves the store as it is and its lineage fields are "?"; boot completed is
\* never reset and the termination flag is never cleared.
C40_TrackingGate ==
  [][/\ \A c \in TrackCreations :
          hookTrack(c) /\ GateClosed =>
            /\ tracks' = tracks
            /\ evt' = Enriched("hookTrack", c.guid, LineageDefaults)
            /\ \A f \in DOMAIN evt'.out : evt'.out[f] = "?"
     /\ ~(TrackedIn(tracks') \subseteq TrackedIn(tracks)) => ~GateClosed
     /\ \A c \in TrackCreations :
          hookTrack(c) /\ ~GateClosed /\ c.image = LogonUI => bootCompleted'
     /\ bootCompleted => bootCompleted'
     /\ flagProcTermEn => flagProcTermEn']_vars

\* the creation of g4 was dropped with "?" lineage fields after the logon
\* screen started, with no termination event seen so far
C40_Witness ==
  /\ GateClosed
  /\ [guid |-> "gL", tracked |-> TRUE] \in created
  /\ [guid |-> "g4", tracked |-> FALSE] \in created
  /\ IsZero(GetByGuid("g4"))
  /\ evt = Enriched("hookTrack", "g4", LineageDefaults)

====
